---- MODULE Spec2Model ----
(***************************************************************************)
(* The JavaScript loader and pretty printer of src/javascript/jsparser.py  *)
(* (with the entry point of src/javascript/jspretty.py).                   *)
(*                                                                         *)
(* A generic syntax tree is a record with a "type" field, as the external  *)
(* parser returns it; a typed node is a record with a "cls" field naming   *)
(* its Python class.  Text is a sequence of atoms (the pieces of Python    *)
(* string the renderer concatenates).  A raised Python exception is the    *)
(* value Err(exc, msg), propagated by every caller.                        *)
(***************************************************************************)
EXTENDS Integers, Sequences, FiniteSets, TLC

VARIABLES pc, ast, result, rules, text, checks, nloads

vars == <<pc, ast, result, rules, text, checks, nloads>>

(***************************************************************************)
(* Python values.                                                          *)
(***************************************************************************)
None == [cls |-> "None"]

Err(exc, msg) == [cls |-> "Error", exc |-> exc, msg |-> msg]

IsErr(v) == "cls" \in DOMAIN v /\ v.cls = "Error"

IsNone(v) == v = None

Has(node, k) == k \in DOMAIN node

\* node[k] of a dict: KeyError when the key is absent, TypeError on None
Field(node, k) ==
    IF IsErr(node) THEN node
    ELSE IF IsNone(node) THEN Err("TypeError", "NoneType is not subscriptable")
    ELSE IF ~Has(node, k) THEN Err("KeyError", k)
    ELSE node[k]

\* a loader's return: the value (or the exception) and the Block.checks table after it
R(v, c) == [v |-> v, c |-> c]

Range(s) == {s[i] : i \in DOMAIN s}

(***************************************************************************)
(* checknode                                                               *)
(***************************************************************************)
StrKeys(s) == [kind |-> "str", s |-> s]

ListKeys(l) == [kind |-> "list", l |-> l]

NoKeys == [kind |-> "none"]

NoNodeType == ""

\* the list object checknode works on: a str becomes a fresh one-element list
KeysList(keys) == IF keys.kind = "str" THEN <<keys.s>> ELSE keys.l

\* keys.append('type')
AppendType(l) == Append(l, "type")

\* a checknode that leaves the caller's list holding 'type' alone
KeysAfterReplaced(node, keys, nodetype) ==
    IF keys.kind = "list" THEN ListKeys(<<"type">>) ELSE keys

\* the caller's keys object after the call: a list is extended in place, a str is not
KeysAfter(node, keys, nodetype) ==
    IF IsNone(node) /\ nodetype # NoNodeType THEN keys
    ELSE IF nodetype # NoNodeType /\ (~Has(node, "type") \/ node.type # nodetype) THEN keys
    ELSE IF keys.kind = "list" THEN ListKeys(AppendType(keys.l))
    ELSE keys

checknode(node, keys, nodetype) ==
    IF IsErr(node) THEN node
    ELSE IF nodetype # NoNodeType /\ IsNone(node)
        THEN Err("TypeError", "NoneType is not subscriptable")
    ELSE IF nodetype # NoNodeType /\ ~Has(node, "type") THEN Err("KeyError", "type")
    ELSE IF nodetype # NoNodeType /\ node.type # nodetype
        THEN Err("Exception", "Mismatched node type")
    ELSE IF IsNone(node) THEN Err("AttributeError", "NoneType has no attribute keys")
    ELSE IF \E k \in DOMAIN node : k \notin Range(AppendType(KeysList(keys)))
        THEN Err("Exception", "Unknown key")
    ELSE None

\* the exception of evaluating node[k], None when the access succeeds
FieldErr(node, k) ==
    IF IsErr(node) THEN node
    ELSE IF IsNone(node) THEN Err("TypeError", "NoneType is not subscriptable")
    ELSE IF ~Has(node, k) THEN Err("KeyError", k)
    ELSE None

\* a Python list of typed nodes
List(items) == [cls |-> "list", items |-> items]

(***************************************************************************)
(* The typed nodes (the classes' __init__).                                *)
(***************************************************************************)
Operand(kind, value, raw) == [cls |-> "Operand", kind |-> kind, value |-> value, raw |-> raw]

Operation(operator, left, right, kind) ==
    [cls |-> "Operation", operator |-> operator, left |-> left, right |-> right, kind |-> kind]

Modifier(operator, argument, prefix) ==
    [cls |-> "Modifier", operator |-> operator, argument |-> argument, prefix |-> prefix]

ConditionalExpression(test, consequent, alternate) ==
    [cls |-> "ConditionalExpression", test |-> test, consequent |-> consequent,
     alternate |-> alternate]

ConditionalStatement(test, consequent, alternate) ==
    [cls |-> "ConditionalStatement", test |-> test, consequent |-> consequent,
     alternate |-> alternate]

\* None in a slot that otherwise holds a str (a name, a keyword)
NoneStr == "<None>"

Handler == [cls |-> "Handler", block |-> None, param |-> NoneStr, catcher |-> None,
            finalizer |-> None]

Block == [cls |-> "Block", vardecl |-> <<>>, exprs |-> <<>>, funcs |-> <<>>,
          statements |-> <<>>, top |-> FALSE]

Iterator(itervar, rangedecl, body) ==
    [cls |-> "Iterator", itervar |-> itervar, rangedecl |-> rangedecl, body |-> body]

Loop(kind) == [cls |-> "Loop", kind |-> kind, init |-> <<>>, test |-> None, update |-> None,
               body |-> None]

Function(name, kind, body) ==
    [cls |-> "Function", name |-> name, kind |-> kind, params |-> <<>>, body |-> body]

Call(callee, kind, args) == [cls |-> "Call", kind |-> kind, callee |-> callee, args |-> args]

Property(kind, key, value) ==
    [cls |-> "Property", kind |-> kind, key |-> key,
     value |-> IF kind \in {"method", "setter", "getter"} /\ value.cls = "Function"
               THEN [value EXCEPT !.kind = "objprop", !.name = ""]
               ELSE value]

Object == [cls |-> "Object", properties |-> <<>>]

Combinator(kind) == [cls |-> "Combinator", open |-> kind[1], close |-> kind[Len(kind)],
                     args |-> <<>>]

Action(expression, kind) == [cls |-> "Action", expression |-> expression, kind |-> kind]

Expression == [cls |-> "Expression"]

VariableDeclaration == [cls |-> "VariableDeclaration", id |-> NoneStr, kind |-> NoneStr,
                        expression |-> None]

Program(body) == [cls |-> "Program", body |-> [body EXCEPT !.top = TRUE]]

(***************************************************************************)
(* The Loader.  Every loader takes the generic node and the Block.checks   *)
(* table as it stands, and returns R(value or exception, table after).     *)
(***************************************************************************)
\* F_(...) is the call of the method F; every call goes through Invoke, which looks
\* the method up by its name
RECURSIVE Invoke(_, _, _, _)

ExpressionLoad_(astnode, chk) == Invoke("Expression.load", astnode, None, chk)

BlockLoad_(astnode, chk) == Invoke("Block.load", astnode, None, chk)

BlockLoadstatement_(astnode, chk) == Invoke("Block.loadstatement", astnode, None, chk)

BlockLoadvardecl_(astnode, chk) == Invoke("Block.loadvardecl", astnode, None, chk)

BlockLoadconditional_(astnode, chk) == Invoke("Block.loadconditional", astnode, None, chk)

HandlerLoad_(astnode, chk) == Invoke("Handler.load", astnode, None, chk)

IteratorLoad_(astnode, chk) == Invoke("Iterator.load", astnode, None, chk)

LoopLoadfor_(astnode, chk) == Invoke("Loop.loadfor", astnode, None, chk)

LoopLoadwhile_(astnode, chk) == Invoke("Loop.loadwhile", astnode, None, chk)

ObjectLoad_(astnode, chk) == Invoke("Object.load", astnode, None, chk)

ProgramLoad_(astnode, chk) == Invoke("Program.load", astnode, None, chk)

FunctionLoad_(astnode, arg, chk) == Invoke("Function.load", astnode, arg, chk)

CallLoad_(astnode, arg, chk) == Invoke("Call.load", astnode, arg, chk)

CombinatorLoad_(astnode, arg, chk) == Invoke("Combinator.load", astnode, arg, chk)

VariableDeclarationLoad_(astnode, arg, chk) == Invoke("VariableDeclaration.load", astnode, arg, chk)

BlockLoadaction_(astnode, arg, chk) == Invoke("Action", astnode, arg, chk)

RECURSIVE CombinatorArgs(_, _, _, _)
RECURSIVE ObjectProperties(_, _, _, _)
RECURSIVE FunctionParams(_, _, _)
RECURSIVE BlockStatements(_, _, _, _)
RECURSIVE BlockVardecls(_, _, _, _)

\* Combinator.load's loop from the i-th element on
CombinatorArgs(astnode, i, combinator, chk) ==
    IF i > Len(astnode) THEN R(combinator, chk)
    ELSE LET a == ExpressionLoad_(astnode[i], chk) IN
         IF IsErr(a.v) THEN a
         ELSE CombinatorArgs(astnode, i + 1,
                             [combinator EXCEPT !.args = Append(@, a.v)], a.c)

CombinatorLoad(astnode, kind, chk) == CombinatorArgs(astnode, 1, Combinator(kind), chk)

CallLoad(astnode, kind, chk) ==
    LET ck == checknode(astnode, ListKeys(<<"callee", "arguments">>), NoNodeType) IN
    IF IsErr(ck) THEN R(ck, chk)
    ELSE LET callee == ExpressionLoad_(Field(astnode, "callee"), chk) IN
         IF IsErr(callee.v) THEN callee
         ELSE IF ~Has(astnode, "arguments") THEN R(Err("KeyError", "arguments"), callee.c)
         ELSE LET args == CombinatorLoad_(astnode.arguments, <<"(", ")">>, callee.c) IN
              IF IsErr(args.v) THEN args
              ELSE R(Call(callee.v, kind, args.v), args.c)

\* a getkind that leaves the flags of an 'init' property unread
PropertyGetkindFlagless(astnode) ==
    IF ~Has(astnode, "kind") THEN Err("KeyError", "kind")
    ELSE IF astnode.kind = "init" THEN [cls |-> "kind", kind |-> "init"]
    ELSE IF astnode.kind = "set" THEN [cls |-> "kind", kind |-> "setter"]
    ELSE IF astnode.kind = "get" THEN [cls |-> "kind", kind |-> "getter"]
    ELSE Err("Exception", "Unknown property kind")

PropertyGetkind(astnode) ==
    IF ~Has(astnode, "kind") THEN Err("KeyError", "kind")
    ELSE IF astnode.kind = "init"
        THEN IF ~Has(astnode, "method") THEN Err("KeyError", "method")
             ELSE IF astnode.method THEN [cls |-> "kind", kind |-> "method"]
             ELSE IF ~Has(astnode, "shorthand") THEN Err("KeyError", "shorthand")
             ELSE IF astnode.shorthand THEN [cls |-> "kind", kind |-> "shorthand"]
             ELSE [cls |-> "kind", kind |-> "init"]
    ELSE IF astnode.kind = "set" THEN [cls |-> "kind", kind |-> "setter"]
    ELSE IF astnode.kind = "get" THEN [cls |-> "kind", kind |-> "getter"]
    ELSE Err("Exception", "Unknown property kind")

\* Object.load's loop from the i-th property on
ObjectProperties(props, i, obj, chk) ==
    IF i > Len(props) THEN R(obj, chk)
    ELSE LET p == props[i]
             ck1 == checknode(p, ListKeys(<<"key", "computed", "value", "kind", "method",
                                            "shorthand">>), "Property")
             ck2 == checknode(Field(p, "key"), StrKeys("name"), "Identifier")
             kind == PropertyGetkind(p)
             value == ExpressionLoad_(Field(p, "value"), chk)
         IN  IF IsErr(ck1) THEN R(ck1, chk)
             ELSE IF IsErr(ck2) THEN R(ck2, chk)
             ELSE IF ~Has(p, "computed") THEN R(Err("KeyError", "computed"), chk)
             ELSE IF p.computed
                 THEN R(Err("Exception", "Computed properties are not supported"), chk)
             ELSE IF IsErr(kind) THEN R(kind, chk)
             ELSE IF ~Has(p.key, "name") THEN R(Err("KeyError", "name"), chk)
             ELSE IF IsErr(value.v) THEN value
             ELSE ObjectProperties(props, i + 1,
                     [obj EXCEPT !.properties =
                          Append(@, Property(kind.kind, p.key.name, value.v))],
                     value.c)

ObjectLoad(astnode, chk) ==
    LET ck == checknode(astnode, StrKeys("properties"), NoNodeType) IN
    IF IsErr(ck) THEN R(ck, chk)
    ELSE IF ~Has(astnode, "properties") THEN R(Err("KeyError", "properties"), chk)
    ELSE ObjectProperties(astnode.properties, 1, Object, chk)

\* Function.load's loop over params from the i-th on
FunctionParams(params, i, func) ==
    IF i > Len(params) THEN func
    ELSE LET p == params[i]
             e == FieldErr(p, "type")
             ck == checknode(p, StrKeys("name"), NoNodeType)
         IN  IF IsErr(e) THEN e
             ELSE IF p.type # "Identifier" THEN Err("Exception", "Unsupported parameter")
             ELSE IF IsErr(ck) THEN ck
             ELSE IF ~Has(p, "name") THEN Err("KeyError", "name")
             ELSE FunctionParams(params, i + 1,
                     [func EXCEPT !.params = Append(@, Operand("parameter", p.name, p.name))])

\* the name Function.load reads from astnode['id'] (or the exception of reading it)
FunctionName(astnode) ==
    IF ~Has(astnode, "id") THEN Err("KeyError", "id")
    ELSE IF IsNone(astnode.id) THEN [cls |-> "name", name |-> NoneStr]
    ELSE LET ck == checknode(astnode.id, StrKeys("name"), NoNodeType) IN
         IF IsErr(ck) THEN ck
         ELSE IF ~Has(astnode.id, "name") THEN Err("KeyError", "name")
         ELSE [cls |-> "name", name |-> astnode.id.name]

\* the feature checks of Function.load between the name and the body
FunctionUnsupported(astnode) ==
    IF ~Has(astnode, "generator") THEN Err("KeyError", "generator")
    ELSE IF ~astnode.generator /\ ~Has(astnode, "expression")
        THEN Err("KeyError", "expression")
    ELSE IF astnode.generator \/ astnode.expression
        THEN Err("Exception", "Generators or expressions are not yet implemented")
    ELSE IF ~Has(astnode, "defaults") THEN Err("KeyError", "defaults")
    ELSE IF Len(astnode.defaults) < 0 THEN Err("Exception", "Defaults are not yet implemented")
    ELSE IF IsErr(FieldErr(Field(astnode, "body"), "type"))
        THEN FieldErr(Field(astnode, "body"), "type")
    ELSE IF astnode.body.type # "BlockStatement" THEN Err("Exception", "Unknown function body")
    ELSE IF ~Has(astnode.body, "body") THEN Err("KeyError", "body")
    ELSE None

FunctionLoad(astnode, decl, chk) ==
    LET ck == checknode(astnode, ListKeys(<<"id", "params", "defaults", "body", "generator",
                                            "expression">>), NoNodeType)
        funcname == FunctionName(astnode)
        bad == FunctionUnsupported(astnode)
    IN  IF IsErr(ck) THEN R(ck, chk)
        ELSE IF IsErr(funcname) THEN R(funcname, chk)
        ELSE IF IsErr(bad) THEN R(bad, chk)
        ELSE LET body == BlockLoad_(astnode.body.body, chk) IN
             IF IsErr(body.v) THEN body
             ELSE IF ~Has(astnode, "params") THEN R(Err("KeyError", "params"), body.c)
             ELSE R(FunctionParams(astnode.params, 1,
                                   Function(funcname.name, decl, body.v)), body.c)

ExpressionBinary(type) ==
    CASE type = "BinaryExpression" -> "general"
      [] type = "AssignmentExpression" -> "assignment"
      [] type = "LogicalExpression" -> "logical"

ExpressionCall(type) ==
    CASE type = "CallExpression" -> "call"
      [] type = "NewExpression" -> "new"

ExpressionLoad(astnode, chk) ==
    LET e == FieldErr(astnode, "type") IN
    IF IsErr(e) THEN R(e, chk)
    ELSE IF astnode.type = "Literal" THEN
        LET ck == checknode(astnode, ListKeys(<<"value", "raw", "regex">>), NoNodeType) IN
        IF IsErr(ck) THEN R(ck, chk)
        ELSE IF ~Has(astnode, "value") THEN R(Err("KeyError", "value"), chk)
        ELSE IF ~Has(astnode, "raw") THEN R(Err("KeyError", "raw"), chk)
        ELSE R(Operand(IF Has(astnode, "regex") THEN "regex" ELSE "literal",
                       astnode.value, astnode.raw), chk)
    ELSE IF astnode.type \in {"CallExpression", "NewExpression"} THEN
        CallLoad_(astnode, ExpressionCall(astnode.type), chk)
    ELSE IF astnode.type = "FunctionExpression" THEN FunctionLoad_(astnode, "inline", chk)
    ELSE IF astnode.type = "MemberExpression" THEN
        LET ck == checknode(astnode, ListKeys(<<"computed", "object", "property">>),
                            NoNodeType) IN
        IF IsErr(ck) THEN R(ck, chk)
        ELSE IF ~Has(astnode, "computed") THEN R(Err("KeyError", "computed"), chk)
        ELSE LET kind == IF astnode.computed THEN "bracketmember" ELSE "dotmember"
                 left == ExpressionLoad_(Field(astnode, "object"), chk)
             IN  IF IsErr(left.v) THEN left
                 ELSE LET right == ExpressionLoad_(Field(astnode, "property"), left.c) IN
                      IF IsErr(right.v) THEN right
                      ELSE R(Operation(".", left.v, right.v, kind), right.c)
    ELSE IF astnode.type = "Identifier" THEN
        LET ck == checknode(astnode, StrKeys("name"), NoNodeType) IN
        IF IsErr(ck) THEN R(ck, chk)
        ELSE IF ~Has(astnode, "name") THEN R(Err("KeyError", "name"), chk)
        ELSE R(Operand("identifier", astnode.name, astnode.name), chk)
    ELSE IF astnode.type = "ThisExpression" THEN
        LET ck == checknode(astnode, ListKeys(<<>>), NoNodeType) IN
        IF IsErr(ck) THEN R(ck, chk)
        ELSE R(Operand("this", "this", "this"), chk)
    ELSE IF astnode.type \in {"BinaryExpression", "AssignmentExpression",
                              "LogicalExpression"} THEN
        LET ck == checknode(astnode, ListKeys(<<"operator", "left", "right">>), NoNodeType) IN
        IF IsErr(ck) THEN R(ck, chk)
        ELSE IF ~Has(astnode, "operator") THEN R(Err("KeyError", "operator"), chk)
        ELSE LET left == ExpressionLoad_(Field(astnode, "left"), chk) IN
             IF IsErr(left.v) THEN left
             ELSE LET right == ExpressionLoad_(Field(astnode, "right"), left.c) IN
                  IF IsErr(right.v) THEN right
                  ELSE R(Operation(astnode.operator, left.v, right.v,
                                   ExpressionBinary(astnode.type)), right.c)
    ELSE IF astnode.type = "ConditionalExpression" THEN
        LET ck == checknode(astnode, ListKeys(<<"test", "consequent", "alternate">>),
                            NoNodeType) IN
        IF IsErr(ck) THEN R(ck, chk)
        ELSE LET test == ExpressionLoad_(Field(astnode, "test"), chk) IN
             IF IsErr(test.v) THEN test
             ELSE LET consequent == ExpressionLoad_(Field(astnode, "consequent"), test.c) IN
                  IF IsErr(consequent.v) THEN consequent
                  ELSE LET alternate ==
                               ExpressionLoad_(Field(astnode, "alternate"), consequent.c) IN
                       IF IsErr(alternate.v) THEN alternate
                       ELSE R(ConditionalExpression(test.v, consequent.v, alternate.v),
                              alternate.c)
    ELSE IF astnode.type \in {"UnaryExpression", "UpdateExpression"} THEN
        LET ck == checknode(astnode, ListKeys(<<"operator", "argument", "prefix">>),
                            NoNodeType) IN
        IF IsErr(ck) THEN R(ck, chk)
        ELSE IF ~Has(astnode, "operator") THEN R(Err("KeyError", "operator"), chk)
        ELSE LET argument == ExpressionLoad_(Field(astnode, "argument"), chk) IN
             IF IsErr(argument.v) THEN argument
             ELSE IF ~Has(astnode, "prefix") THEN R(Err("KeyError", "prefix"), argument.c)
             ELSE R(Modifier(astnode.operator, argument.v, astnode.prefix), argument.c)
    ELSE IF astnode.type = "ArrayExpression" THEN
        LET ck == checknode(astnode, StrKeys("elements"), NoNodeType) IN
        IF IsErr(ck) THEN R(ck, chk)
        ELSE IF ~Has(astnode, "elements") THEN R(Err("KeyError", "elements"), chk)
        ELSE CombinatorLoad_(astnode.elements, <<"[", "]">>, chk)
    ELSE IF astnode.type = "ObjectExpression" THEN ObjectLoad_(astnode, chk)
    ELSE R(Err("Exception", "Unknown expression type"), chk)

VariableDeclarationLoad(astnode, kind, chk) ==
    LET ck1 == checknode(astnode, ListKeys(<<"id", "init">>), "VariableDeclarator")
        ck2 == checknode(Field(astnode, "id"), StrKeys("name"), "Identifier")
    IN  IF IsErr(ck1) THEN R(ck1, chk)
        ELSE IF IsErr(ck2) THEN R(ck2, chk)
        ELSE IF ~Has(astnode.id, "name") THEN R(Err("KeyError", "name"), chk)
        ELSE LET vd == [VariableDeclaration EXCEPT !.id = astnode.id.name, !.kind = kind] IN
             IF Has(astnode, "init") /\ ~IsNone(astnode.init)
             THEN LET init == ExpressionLoad_(astnode.init, chk) IN
                  IF IsErr(init.v) THEN init
                  ELSE R([vd EXCEPT !.expression = init.v], init.c)
             ELSE R(vd, chk)

RECURSIVE BlockVardeclsReversed(_, _, _, _)
\* Block.loadvardecl's loop putting each declaration before the earlier ones
BlockVardeclsReversed(x, i, vds, chk) ==
    IF i > Len(x.declarations) THEN R(List(vds), chk)
    ELSE IF ~Has(x, "kind") THEN R(Err("KeyError", "kind"), chk)
    ELSE LET vd == VariableDeclarationLoad_(x.declarations[i], x.kind, chk) IN
         IF IsErr(vd.v) THEN vd
         ELSE BlockVardeclsReversed(x, i + 1, <<vd.v>> \o vds, vd.c)

\* Block.loadvardecl's loop from the i-th declarator on
BlockVardecls(x, i, vds, chk) ==
    IF i > Len(x.declarations) THEN R(List(vds), chk)
    ELSE IF ~Has(x, "kind") THEN R(Err("KeyError", "kind"), chk)
    ELSE LET vd == VariableDeclarationLoad_(x.declarations[i], x.kind, chk) IN
         IF IsErr(vd.v) THEN vd
         ELSE BlockVardecls(x, i + 1, Append(vds, vd.v), vd.c)

BlockLoadvardecl(x, chk) ==
    IF ~Has(x, "declarations") THEN R(Err("KeyError", "declarations"), chk)
    ELSE BlockVardecls(x, 1, <<>>, chk)

BlockLoadconditional(x, chk) ==
    LET test == ExpressionLoad_(Field(x, "test"), chk) IN
    IF IsErr(test.v) THEN test
    ELSE LET consequent == BlockLoadstatement_(Field(x, "consequent"), test.c) IN
         IF IsErr(consequent.v) THEN consequent
         ELSE IF ~Has(x, "alternate") THEN R(Err("KeyError", "alternate"), consequent.c)
         ELSE IF IsNone(x.alternate)
             THEN R(ConditionalStatement(test.v, consequent.v, None), consequent.c)
         ELSE LET alternate == BlockLoadstatement_(x.alternate, consequent.c) IN
              IF IsErr(alternate.v) THEN alternate
              ELSE R(ConditionalStatement(test.v, consequent.v, alternate.v), alternate.c)

BlockLoadcontrol(astnode, kind, chk) ==
    IF ~Has(astnode, "label") THEN R(Err("KeyError", "label"), chk)
    ELSE IF ~IsNone(astnode.label)
        THEN R(Err("Exception", "with labels are unsupported"), chk)
    ELSE R(Action(None, kind), chk)

\* Action(Expression.load(x['argument']), kind)
BlockLoadaction(x, kind, chk) ==
    LET argument == ExpressionLoad_(Field(x, "argument"), chk) IN
    IF IsErr(argument.v) THEN argument
    ELSE R(Action(argument.v, kind), argument.c)

\* Block.checks as the class body builds it
BlockChecks ==
    [VariableDeclaration |-> ListKeys(<<"declarations", "kind">>),
     ExpressionStatement |-> StrKeys("expression"),
     FunctionDeclaration |-> NoKeys,
     EmptyStatement |-> ListKeys(<<>>),
     ReturnStatement |-> StrKeys("argument"),
     IfStatement |-> ListKeys(<<"test", "consequent", "alternate">>),
     BlockStatement |-> StrKeys("body"),
     ThrowStatement |-> StrKeys("argument"),
     ForStatement |-> NoKeys,
     ForInStatement |-> NoKeys,
     BreakStatement |-> StrKeys("label"),
     ContinueStatement |-> StrKeys("label"),
     WhileStatement |-> NoKeys,
     TryStatement |-> NoKeys]

\* Block.loads[xtype](x)
BlockLoads(xtype, x, chk) ==
    CASE xtype = "VariableDeclaration" -> BlockLoadvardecl_(x, chk)
      [] xtype = "ExpressionStatement" -> ExpressionLoad_(Field(x, "expression"), chk)
      [] xtype = "FunctionDeclaration" -> FunctionLoad_(x, "declaration", chk)
      [] xtype = "EmptyStatement" -> R(Expression, chk)
      [] xtype = "ReturnStatement" -> BlockLoadaction_(x, "Return", chk)
      [] xtype = "IfStatement" -> BlockLoadconditional_(x, chk)
      [] xtype = "BlockStatement" ->
            IF ~Has(x, "body") THEN R(Err("KeyError", "body"), chk)
            ELSE BlockLoad_(x.body, chk)
      [] xtype = "ThrowStatement" -> BlockLoadaction_(x, "Throw", chk)
      [] xtype = "ForStatement" -> LoopLoadfor_(x, chk)
      [] xtype = "ForInStatement" -> IteratorLoad_(x, chk)
      [] xtype = "BreakStatement" -> BlockLoadcontrol(x, "Break", chk)
      [] xtype = "ContinueStatement" -> BlockLoadcontrol(x, "Continue", chk)
      [] xtype = "WhileStatement" -> LoopLoadwhile_(x, chk)
      [] xtype = "TryStatement" -> HandlerLoad_(x, chk)

BlockLoadstatement(astnode, chk) ==
    LET e == FieldErr(astnode, "type") IN
    IF IsErr(e) THEN R(e, chk)
    ELSE IF astnode.type \notin DOMAIN chk
        THEN R(Err("Exception", "Unknown block statement"), chk)
    ELSE IF chk[astnode.type].kind = "none" THEN BlockLoads(astnode.type, astnode, chk)
    ELSE LET ck == checknode(astnode, chk[astnode.type], NoNodeType)
             chk1 == [chk EXCEPT ![astnode.type] = KeysAfter(astnode, @, NoNodeType)]
         IN  IF IsErr(ck) THEN R(ck, chk1)
             ELSE BlockLoads(astnode.type, astnode, chk1)

\* the attribute of the block Block.load's dispatch table names for a statement type
BlockDispatch(xtype) ==
    CASE xtype = "VariableDeclaration" -> "vardecl"
      [] xtype = "FunctionDeclaration" -> "funcs"
      [] OTHER -> "exprs"

\* Block.load's loop from the i-th statement on
BlockStatements(astnode, i, block, chk) ==
    IF i > Len(astnode) THEN R(block, chk)
    ELSE LET x == astnode[i]
             stmt == BlockLoadstatement_(x, chk)
             items == IF stmt.v.cls = "list" THEN stmt.v.items ELSE <<stmt.v>>
         IN  IF IsErr(stmt.v) THEN stmt
             ELSE BlockStatements(astnode, i + 1,
                     [block EXCEPT ![BlockDispatch(x.type)] = @ \o items,
                                   !.statements = @ \o items],
                     stmt.c)

BlockLoad(astnode, chk) == BlockStatements(astnode, 1, Block, chk)

\* the catch part of Handler.load
HandlerCatch(astnode, handler, chk) ==
    IF ~Has(astnode, "handler") THEN R(Err("KeyError", "handler"), chk)
    ELSE IF ~Has(astnode, "handlers") THEN R(Err("KeyError", "handlers"), chk)
    ELSE IF ~IsNone(astnode.handler) THEN
        LET ck1 == checknode(astnode.handler, ListKeys(<<"param", "body">>), "CatchClause")
            ck2 == checknode(Field(astnode.handler, "param"), StrKeys("name"), "Identifier")
            ck3 == checknode(Field(astnode.handler, "body"), StrKeys("body"),
                             "BlockStatement")
        IN  IF Len(astnode.handlers) # 1
                THEN R(Err("Exception", "Handlers array is of unusual size in try-catch"), chk)
            ELSE IF IsErr(ck1) THEN R(ck1, chk)
            ELSE IF IsErr(ck2) THEN R(ck2, chk)
            ELSE IF IsErr(ck3) THEN R(ck3, chk)
            ELSE IF ~Has(astnode.handler.param, "name") THEN R(Err("KeyError", "name"), chk)
            ELSE IF ~Has(astnode.handler.body, "body") THEN R(Err("KeyError", "body"), chk)
            ELSE LET catcher == BlockLoad_(astnode.handler.body.body, chk) IN
                 IF IsErr(catcher.v) THEN catcher
                 ELSE R([handler EXCEPT !.param = astnode.handler.param.name,
                                        !.catcher = catcher.v], catcher.c)
    ELSE IF Len(astnode.handlers) > 0
        THEN R(Err("Exception", "Handlers array is not empty in try-catch"), chk)
    ELSE R(handler, chk)

\* the finally part of Handler.load
HandlerFinally(astnode, handler, chk) ==
    IF ~Has(astnode, "finalizer") THEN R(Err("KeyError", "finalizer"), chk)
    ELSE IF ~IsNone(astnode.finalizer) THEN
        LET ck == checknode(astnode.finalizer, StrKeys("body"), "BlockStatement") IN
        IF IsErr(ck) THEN R(ck, chk)
        ELSE IF ~Has(astnode.finalizer, "body") THEN R(Err("KeyError", "body"), chk)
        ELSE LET finalizer == BlockLoad_(astnode.finalizer.body, chk) IN
             IF IsErr(finalizer.v) THEN finalizer
             ELSE R([handler EXCEPT !.finalizer = finalizer.v], finalizer.c)
    ELSE R(handler, chk)

\* Handler.load without its guardedHandlers test
HandlerGuardedAny(astnode) ==
    IF ~Has(astnode, "guardedHandlers") THEN Err("KeyError", "guardedHandlers") ELSE None

\* the guardedHandlers test of Handler.load
HandlerGuarded(astnode) ==
    IF ~Has(astnode, "guardedHandlers") THEN Err("KeyError", "guardedHandlers")
    ELSE IF ~(Len(astnode.guardedHandlers) = 0)
        THEN Err("Exception", "Bad guardedHandlers in try-catch")
    ELSE None

HandlerLoad(astnode, chk) ==
    LET ck1 == checknode(astnode, ListKeys(<<"block", "handler", "guardedHandlers",
                                             "handlers", "finalizer">>), NoNodeType)
        ck2 == checknode(Field(astnode, "block"), StrKeys("body"), "BlockStatement")
        guarded == HandlerGuarded(astnode)
    IN  IF IsErr(ck1) THEN R(ck1, chk)
        ELSE IF IsErr(ck2) THEN R(ck2, chk)
        ELSE IF IsErr(guarded) THEN R(guarded, chk)
        ELSE IF ~Has(astnode.block, "body") THEN R(Err("KeyError", "body"), chk)
        ELSE LET block == BlockLoad_(astnode.block.body, chk) IN
             IF IsErr(block.v) THEN block
             ELSE LET caught == HandlerCatch(astnode, [Handler EXCEPT !.block = block.v],
                                             block.c) IN
                  IF IsErr(caught.v) THEN caught
                  ELSE HandlerFinally(astnode, caught.v, caught.c)

IteratorLoad(astnode, chk) ==
    LET ck == checknode(astnode, ListKeys(<<"left", "right", "each", "body">>), NoNodeType) IN
    IF IsErr(ck) THEN R(ck, chk)
    ELSE IF ~Has(astnode, "each") THEN R(Err("KeyError", "each"), chk)
    ELSE IF astnode.each
        THEN R(Err("Exception", "'each' attribute should be false in for-in statement"), chk)
    ELSE LET left == ExpressionLoad_(Field(astnode, "left"), chk) IN
         IF IsErr(left.v) THEN left
         ELSE LET right == ExpressionLoad_(Field(astnode, "right"), left.c) IN
              IF IsErr(right.v) THEN right
              ELSE LET body == BlockLoadstatement_(Field(astnode, "body"), right.c) IN
                   IF IsErr(body.v) THEN body
                   ELSE R(Iterator(left.v, right.v, body.v), body.c)

\* test, update (For only) and body of a loop, shared by loadfor and loadwhile
LoopRest(astnode, loop, chk) ==
    IF ~Has(astnode, "test") THEN R(Err("KeyError", "test"), chk)
    ELSE LET test == IF IsNone(astnode.test) THEN R(None, chk)
                     ELSE ExpressionLoad_(astnode.test, chk) IN
         IF IsErr(test.v) THEN test
         ELSE IF loop.kind = "For" /\ ~Has(astnode, "update")
             THEN R(Err("KeyError", "update"), test.c)
         ELSE LET update == IF loop.kind # "For" \/ IsNone(astnode.update) THEN R(None, test.c)
                            ELSE ExpressionLoad_(astnode.update, test.c) IN
              IF IsErr(update.v) THEN update
              ELSE LET body == BlockLoadstatement_(Field(astnode, "body"), update.c) IN
                   IF IsErr(body.v) THEN body
                   ELSE R([loop EXCEPT !.test = test.v, !.update = update.v,
                                       !.body = body.v], body.c)

LoopLoadfor(astnode, chk) ==
    LET ck == checknode(astnode, ListKeys(<<"init", "test", "update", "body">>), NoNodeType)
        loop == Loop("For")
    IN  IF IsErr(ck) THEN R(ck, chk)
        ELSE IF ~Has(astnode, "init") THEN R(Err("KeyError", "init"), chk)
        ELSE IF IsNone(astnode.init) THEN LoopRest(astnode, loop, chk)
        ELSE IF ~Has(astnode.init, "type") THEN R(Err("KeyError", "type"), chk)
        ELSE IF astnode.init.type = "VariableDeclaration" THEN
            LET ck2 == checknode(astnode.init, ListKeys(<<"declarations", "kind">>),
                                 NoNodeType)
                vds == BlockLoadvardecl_(astnode.init, chk)
            IN  IF IsErr(ck2) THEN R(ck2, chk)
                ELSE IF IsErr(vds.v) THEN vds
                ELSE LoopRest(astnode, [loop EXCEPT !.init = @ \o vds.v.items], vds.c)
        ELSE LET init == ExpressionLoad_(astnode.init, chk) IN
             IF IsErr(init.v) THEN init
             ELSE LoopRest(astnode, [loop EXCEPT !.init = Append(@, init.v)], init.c)

LoopLoadwhile(astnode, chk) ==
    LET ck == checknode(astnode, ListKeys(<<"test", "body">>), NoNodeType) IN
    IF IsErr(ck) THEN R(ck, chk)
    ELSE LoopRest(astnode, Loop("While"), chk)

ProgramLoad(astnode, chk) ==
    LET ck == checknode(astnode, StrKeys("body"), NoNodeType) IN
    IF IsErr(ck) THEN R(ck, chk)
    ELSE IF ~Has(astnode, "body") THEN R(Err("KeyError", "body"), chk)
    ELSE LET body == BlockLoad_(astnode.body, chk) IN
         IF IsErr(body.v) THEN body
         ELSE R(Program(body.v), body.c)

Invoke(method, astnode, arg, chk) ==
    CASE method = "Expression.load" -> ExpressionLoad(astnode, chk)
      [] method = "Block.load" -> BlockLoad(astnode, chk)
      [] method = "Block.loadstatement" -> BlockLoadstatement(astnode, chk)
      [] method = "Block.loadvardecl" -> BlockLoadvardecl(astnode, chk)
      [] method = "Block.loadconditional" -> BlockLoadconditional(astnode, chk)
      [] method = "Handler.load" -> HandlerLoad(astnode, chk)
      [] method = "Iterator.load" -> IteratorLoad(astnode, chk)
      [] method = "Loop.loadfor" -> LoopLoadfor(astnode, chk)
      [] method = "Loop.loadwhile" -> LoopLoadwhile(astnode, chk)
      [] method = "Object.load" -> ObjectLoad(astnode, chk)
      [] method = "Program.load" -> ProgramLoad(astnode, chk)
      [] method = "Function.load" -> FunctionLoad(astnode, arg, chk)
      [] method = "Call.load" -> CallLoad(astnode, arg, chk)
      [] method = "Combinator.load" -> CombinatorLoad(astnode, arg, chk)
      [] method = "VariableDeclaration.load" -> VariableDeclarationLoad(astnode, arg, chk)
      [] method = "Action" -> BlockLoadaction(astnode, arg, chk)

\* load(jssource) past the external parser: ast is what parse returned
load(astnode, chk) ==
    IF IsErr(FieldErr(astnode, "type")) THEN R(FieldErr(astnode, "type"), chk)
    ELSE IF astnode.type # "Program" THEN R(Err("Exception", "Invalid AST"), chk)
    ELSE ProgramLoad_(astnode, chk)

(***************************************************************************)
(* Text: a sequence of atoms.  An exception raised while rendering is the  *)
(* one-atom text AttributeError, which every concatenation propagates.     *)
(***************************************************************************)
NL == "\n"

SP == " "

\* a Python str as text: the empty str adds nothing
S(str) == IF str = "" THEN <<>> ELSE <<str>>

AttributeError == <<"#AttributeError">>

IsErrText(t) == Len(t) > 0 /\ t[1] = AttributeError[1]

\* a + b
Cat(a, b) == IF IsErrText(a) THEN a ELSE IF IsErrText(b) THEN b ELSE a \o b

RECURSIVE CatFrom(_, _)
CatFrom(parts, i) == IF i > Len(parts) THEN <<>> ELSE Cat(parts[i], CatFrom(parts, i + 1))

\* parts[1] + parts[2] + ...
Str(parts) == CatFrom(parts, 1)

RECURSIVE JoinFrom(_, _, _)
JoinFrom(sep, parts, i) ==
    IF i > Len(parts) THEN <<>>
    ELSE IF i = Len(parts) THEN parts[i]
    ELSE Str(<<parts[i], sep, JoinFrom(sep, parts, i + 1)>>)

\* sep.join(parts)
Join(sep, parts) == JoinFrom(sep, parts, 1)

RECURSIVE SplitFrom(_, _, _)
SplitFrom(code, i, lines) ==
    IF i > Len(code) THEN lines
    ELSE IF code[i] = NL THEN SplitFrom(code, i + 1, Append(lines, <<>>))
    ELSE SplitFrom(code, i + 1, [lines EXCEPT ![Len(lines)] = Append(@, code[i])])

\* code.split('\n')
Split(code) == SplitFrom(code, 1, << <<>> >>)

(***************************************************************************)
(* The two Rules classes.                                                  *)
(***************************************************************************)
\* jsparser.Rules()
JsparserRules ==
    [cls |-> "jsparser.Rules",
     attrs |-> {"indent", "reqsm", "applyindent", "endmark"},
     indent |-> "    ",
     reqsm |-> {"Operation", "Operand", "Modifier", "ConditionalExpression", "Call", "Action",
                "VariableDeclaration", "Object"}]

\* jspretty.Rules()
JsprettyRules == [cls |-> "jspretty.Rules", attrs |-> {}]

RulesApplyindent(self, code) ==
    LET lines == Split(code)
        indented == [i \in DOMAIN lines |->
                        IF i = Len(lines) /\ lines[i] = <<>> THEN lines[i]
                        ELSE <<self.indent>> \o lines[i]]
    IN  Join(<<NL>>, indented)

\* endmark without its membership test
RulesEndmarkAlways(self, stmt) == <<";", NL>>

RulesEndmark(self, stmt) == IF stmt.cls \in self.reqsm THEN <<";", NL>> ELSE <<>>

\* rules.applyindent(code)
applyindent(rules_, code) ==
    IF "applyindent" \notin rules_.attrs THEN AttributeError
    ELSE IF IsErrText(code) THEN code
    ELSE RulesApplyindent(rules_, code)

\* rules.endmark(stmt)
endmark(rules_, stmt) ==
    IF "endmark" \notin rules_.attrs THEN AttributeError ELSE RulesEndmark(rules_, stmt)

(***************************************************************************)
(* The Renderer: pretty(self, rules) of every class.                       *)
(***************************************************************************)
RECURSIVE pretty(_, _)

OperandPretty(self, rules_) ==
    IF self.kind = "regex" THEN <<"(", self.raw, ")">> ELSE <<self.raw>>

\* prettyoperand without its else branch: no parentheses
OperationPrettyoperandBare(op, rules_) == pretty(op, rules_)

OperationPrettyoperand(op, rules_) ==
    IF op.cls = "Operand" THEN pretty(op, rules_)
    ELSE Str(<< <<"(">>, pretty(op, rules_), <<")">> >>)

OperationPretty(self, rules_) ==
    IF self.kind = "assignment"
        THEN Str(<<pretty(self.left, rules_), <<SP, self.operator, SP>>,
                   pretty(self.right, rules_)>>)
    ELSE IF self.kind = "dotmember"
        THEN Str(<<pretty(self.left, rules_), <<".">>, pretty(self.right, rules_)>>)
    ELSE IF self.kind = "bracketmember"
        THEN Str(<<pretty(self.left, rules_), <<"[">>, pretty(self.right, rules_), <<"]">> >>)
    ELSE Str(<<OperationPrettyoperand(self.left, rules_), <<SP, self.operator, SP>>,
               OperationPrettyoperand(self.right, rules_)>>)

ModifierPretty(self, rules_) ==
    IF self.prefix
        THEN Str(<< <<self.operator>>, OperationPrettyoperand(self.argument, rules_)>>)
    ELSE Str(<<OperationPrettyoperand(self.argument, rules_), <<self.operator>> >>)

ConditionalExpressionPretty(self, rules_) ==
    Str(<< <<"(">>, pretty(self.test, rules_), <<")", SP, "?", SP>>,
           OperationPrettyoperand(self.consequent, rules_), <<SP, ":", SP>>,
           OperationPrettyoperand(self.alternate, rules_)>>)

\* rules.applyindent( body.pretty(rules) + rules.endmark(body) )
IndentedBody(body, rules_) ==
    applyindent(rules_, Cat(pretty(body, rules_), endmark(rules_, body)))

ConditionalStatementPretty(self, rules_) ==
    Str(<< <<"if", SP, "(", SP>>, pretty(self.test, rules_), <<SP, ")", NL>>,
           IndentedBody(self.consequent, rules_),
           IF self.alternate # None
           THEN Cat(<<"else", NL>>, IndentedBody(self.alternate, rules_))
           ELSE <<>> >>)

HandlerPretty(self, rules_) ==
    Str(<< <<"try", NL>>, IndentedBody(self.block, rules_),
           IF self.catcher # None
           THEN Cat(<<"catch", SP, "(", SP, self.param, SP, ")", NL>>,
                    IndentedBody(self.catcher, rules_))
           ELSE <<>>,
           IF self.finalizer # None
           THEN Cat(<<"finally", SP, NL>>, IndentedBody(self.finalizer, rules_))
           ELSE <<>> >>)

\* buf after Block.pretty's loop
BlockBuf(self, rules_) ==
    Str([i \in DOMAIN self.statements |->
            Cat(pretty(self.statements[i], rules_), endmark(rules_, self.statements[i]))])

BlockPretty(self, rules_) ==
    IF ~self.top
        THEN Str(<< <<"{", NL>>, applyindent(rules_, BlockBuf(self, rules_)), <<"}", NL>> >>)
    ELSE BlockBuf(self, rules_)

IteratorPretty(self, rules_) ==
    Str(<< <<"for", "(">>, pretty(self.itervar, rules_), <<SP, "in", SP>>,
           pretty(self.rangedecl, rules_), <<")", NL>>,
           IndentedBody(self.body, rules_)>>)

LoopPretty(self, rules_) ==
    Str(<< IF self.kind = "For"
           THEN Str(<< <<"for", "(">>,
                       Join(<<SP, ",">>, [i \in DOMAIN self.init |-> pretty(self.init[i], rules_)]),
                       <<";", SP>> >>)
           ELSE <<"while", "(", SP>>,
           IF self.test # None THEN pretty(self.test, rules_) ELSE <<>>,
           IF self.kind = "For"
           THEN Cat(<<";", SP>>,
                    IF self.update # None THEN pretty(self.update, rules_) ELSE <<>>)
           ELSE <<>>,
           <<")", NL>>,
           IndentedBody(self.body, rules_)>>)

FunctionPretty(self, rules_) ==
    LET buf == Str(<< IF self.kind # "objprop" THEN <<"function">> ELSE <<>>,
                      IF self.name # NoneStr THEN <<SP>> \o S(self.name) ELSE <<>>,
                      <<"(">>,
                      Join(<<",">>, [i \in DOMAIN self.params |-> pretty(self.params[i], rules_)]),
                      <<")", NL>>,
                      pretty(self.body, rules_)>>)
        wrapped == IF self.kind = "inline" THEN Str(<< <<"(">>, buf, <<")">> >>) ELSE buf
    IN  IF self.kind # "objprop" THEN Cat(wrapped, <<NL>>) ELSE wrapped

CallPretty(self, rules_) ==
    Str(<< IF self.kind = "new" THEN <<"new", SP>> ELSE <<>>,
           pretty(self.callee, rules_), pretty(self.args, rules_)>>)

PropertyPretty(self, rules_) ==
    CASE self.kind = "init" -> Cat(<<self.key, SP, ":", SP>>, pretty(self.value, rules_))
      [] self.kind = "shorthand" -> <<self.key>>
      [] self.kind = "method" -> Cat(<<self.key, SP>>, pretty(self.value, rules_))
      [] self.kind = "setter" -> Cat(<<"set", SP, self.key, SP>>, pretty(self.value, rules_))
      [] self.kind = "getter" -> Cat(<<"get", SP, self.key, SP>>, pretty(self.value, rules_))

ObjectPretty(self, rules_) ==
    LET buf == Str([i \in DOMAIN self.properties |->
                       Cat(pretty(self.properties[i], rules_), <<",", NL>>)])
    IN  Str(<< <<"{", NL>>, applyindent(rules_, buf), <<"}">> >>)

CombinatorPretty(self, rules_) ==
    Str(<< <<self.open>>,
           Join(<<SP, ",">>, [i \in DOMAIN self.args |-> pretty(self.args[i], rules_)]),
           <<self.close>> >>)

ActionKeyword(kind) ==
    CASE kind = "Return" -> "return"
      [] kind = "Throw" -> "throw"
      [] kind = "Break" -> "break"
      [] kind = "Continue" -> "continue"

ActionPretty(self, rules_) ==
    Cat(<<ActionKeyword(self.kind)>>,
        IF self.expression # None THEN Cat(<<SP>>, pretty(self.expression, rules_)) ELSE <<>>)

ExpressionPretty(self, rules_) == <<>>

VariableDeclarationPretty(self, rules_) ==
    Cat(<<self.kind, SP, self.id>>,
        IF self.expression # None
        THEN Cat(<<SP, "=", SP>>, pretty(self.expression, rules_))
        ELSE <<>>)

ProgramPretty(self, rules_) == pretty(self.body, rules_)

\* self.pretty(rules): the method of self's class; a list and None have none
pretty(self, rules_) ==
    CASE self.cls = "Operand" -> OperandPretty(self, rules_)
      [] self.cls = "Operation" -> OperationPretty(self, rules_)
      [] self.cls = "Modifier" -> ModifierPretty(self, rules_)
      [] self.cls = "ConditionalExpression" -> ConditionalExpressionPretty(self, rules_)
      [] self.cls = "ConditionalStatement" -> ConditionalStatementPretty(self, rules_)
      [] self.cls = "Handler" -> HandlerPretty(self, rules_)
      [] self.cls = "Block" -> BlockPretty(self, rules_)
      [] self.cls = "Iterator" -> IteratorPretty(self, rules_)
      [] self.cls = "Loop" -> LoopPretty(self, rules_)
      [] self.cls = "Function" -> FunctionPretty(self, rules_)
      [] self.cls = "Call" -> CallPretty(self, rules_)
      [] self.cls = "Property" -> PropertyPretty(self, rules_)
      [] self.cls = "Object" -> ObjectPretty(self, rules_)
      [] self.cls = "Combinator" -> CombinatorPretty(self, rules_)
      [] self.cls = "Action" -> ActionPretty(self, rules_)
      [] self.cls = "Expression" -> ExpressionPretty(self, rules_)
      [] self.cls = "VariableDeclaration" -> VariableDeclarationPretty(self, rules_)
      [] self.cls = "Program" -> ProgramPretty(self, rules_)
      [] self.cls \in {"list", "None"} -> AttributeError

(***************************************************************************)
(* The generic trees parse() returns: the node shapes of the external      *)
(* parser, one constructor per type tag.                                   *)
(***************************************************************************)
AstIdentifier(name) == [type |-> "Identifier", name |-> name]

AstLiteral(raw) == [type |-> "Literal", value |-> raw, raw |-> raw]

AstRegex(raw) == [type |-> "Literal", value |-> raw, raw |-> raw, regex |-> raw]

AstThis == [type |-> "ThisExpression"]

AstBinary(operator, left, right) ==
    [type |-> "BinaryExpression", operator |-> operator, left |-> left, right |-> right]

AstLogical(operator, left, right) ==
    [type |-> "LogicalExpression", operator |-> operator, left |-> left, right |-> right]

AstAssignment(operator, left, right) ==
    [type |-> "AssignmentExpression", operator |-> operator, left |-> left, right |-> right]

AstMember(object, property, computed) ==
    [type |-> "MemberExpression", computed |-> computed, object |-> object,
     property |-> property]

AstCall(callee, arguments) ==
    [type |-> "CallExpression", callee |-> callee, arguments |-> arguments]

AstNew(callee, arguments) ==
    [type |-> "NewExpression", callee |-> callee, arguments |-> arguments]

AstUnary(operator, argument) ==
    [type |-> "UnaryExpression", operator |-> operator, argument |-> argument,
     prefix |-> TRUE]

AstUpdate(operator, argument, prefix) ==
    [type |-> "UpdateExpression", operator |-> operator, argument |-> argument,
     prefix |-> prefix]

AstConditional(test, consequent, alternate) ==
    [type |-> "ConditionalExpression", test |-> test, consequent |-> consequent,
     alternate |-> alternate]

AstArray(elements) == [type |-> "ArrayExpression", elements |-> elements]

AstProperty(key, value, kind, method, shorthand, computed) ==
    [type |-> "Property", key |-> key, computed |-> computed, value |-> value,
     kind |-> kind, method |-> method, shorthand |-> shorthand]

AstObject(properties) == [type |-> "ObjectExpression", properties |-> properties]

AstBlock(body) == [type |-> "BlockStatement", body |-> body]

AstFunction(type, id, params, defaults, body, generator, expression) ==
    [type |-> type, id |-> id, params |-> params, defaults |-> defaults, body |-> body,
     generator |-> generator, expression |-> expression]

AstDeclarator(id, init) == [type |-> "VariableDeclarator", id |-> id, init |-> init]

AstVariableDeclaration(declarations, kind) ==
    [type |-> "VariableDeclaration", declarations |-> declarations, kind |-> kind]

AstExpressionStatement(expression) ==
    [type |-> "ExpressionStatement", expression |-> expression]

AstEmpty == [type |-> "EmptyStatement"]

AstReturn(argument) == [type |-> "ReturnStatement", argument |-> argument]

AstThrow(argument) == [type |-> "ThrowStatement", argument |-> argument]

AstBreak(label) == [type |-> "BreakStatement", label |-> label]

AstContinue(label) == [type |-> "ContinueStatement", label |-> label]

AstIf(test, consequent, alternate) ==
    [type |-> "IfStatement", test |-> test, consequent |-> consequent,
     alternate |-> alternate]

AstFor(init, test, update, body) ==
    [type |-> "ForStatement", init |-> init, test |-> test, update |-> update, body |-> body]

AstForIn(left, right, body, each) ==
    [type |-> "ForInStatement", left |-> left, right |-> right, body |-> body, each |-> each]

AstWhile(test, body) == [type |-> "WhileStatement", test |-> test, body |-> body]

AstCatch(param, body) == [type |-> "CatchClause", param |-> param, body |-> body]

AstTry(block, guardedHandlers, handlers, handler, finalizer) ==
    [type |-> "TryStatement", block |-> block, guardedHandlers |-> guardedHandlers,
     handlers |-> handlers, handler |-> handler, finalizer |-> finalizer]

AstProgram(body) == [type |-> "Program", body |-> body]

(***************************************************************************)
(* parse(jssource): the external parser load hands the source text to.     *)
(* The text is cut into tokens as its characters are: atoms that touch     *)
(* and are made of word characters are one word.  The grammar is that of   *)
(* the statements and expressions of the language; the early errors that   *)
(* depend on the context of a statement (a return outside a function, a    *)
(* break outside a loop, an unknown label) are not raised.                 *)
(***************************************************************************)
Blanks == {SP, "    "}

Punctuators ==
    {"{", "}", "(", ")", "[", "]", ";", ",", ".", "?", ":",
     "=", "+=", "-=", "*=", "/=", "%=", "&=", "|=", "^=", "<<=", ">>=", ">>>=",
     "+", "-", "*", "/", "%", "<", ">", "<=", ">=", "==", "!=", "===", "!==",
     "&&", "||", "!", "~", "&", "|", "^", "<<", ">>", ">>>", "++", "--"}

Keywords ==
    {"var", "let", "const", "if", "else", "for", "in", "while", "do", "try", "catch",
     "finally", "function", "return", "throw", "break", "continue", "new", "typeof",
     "void", "delete", "this", "instanceof", "switch", "case", "default", "with",
     "debugger", "class", "enum", "export", "extends", "import", "super"}

LiteralWords == {"null", "true", "false"}

\* the numeric literals of the inputs: decimal integers
Numerals == {"0", "1", "2"}

RegularExpressions == {"/x/"}

\* the kind of token the characters of x make
TokenKind(x) ==
    CASE x \in Punctuators -> "punct"
      [] x \in Keywords -> "kw"
      [] x \in LiteralWords -> "lit"
      [] x \in Numerals -> "num"
      [] x \in RegularExpressions -> "regex"
      [] OTHER -> "id"

\* a token: its characters, its kind, and whether a line break precedes it
Token(v, k, nl) == [v |-> v, k |-> k, nl |-> nl]

IsWordKind(k) == k \in {"id", "kw", "lit", "num"}

ReplaceLast(toks, tok) == [toks EXCEPT ![Len(toks)] = tok]

RECURSIVE tokenize(_, _, _, _, _)
\* the tokens of the text from its i-th atom on, after the tokens toks; nl: a line break
\* was passed since the last token; adj: the last token ends where the i-th atom starts
tokenize(code, i, toks, nl, adj) ==
    IF i > Len(code) THEN Append(toks, Token("", "eof", nl))
    ELSE LET x == code[i]
             last == toks[Len(toks)]
         IN  IF x = NL THEN tokenize(code, i + 1, toks, TRUE, FALSE)
             ELSE IF x \in Blanks THEN tokenize(code, i + 1, toks, nl, FALSE)
             ELSE IF adj /\ last.k = "num" /\ last.v \in Numerals /\ x = "."
                 \* the dot after an integer is its decimal point
                 THEN tokenize(code, i + 1,
                               ReplaceLast(toks, Token(last.v \o x, "num", last.nl)), nl, TRUE)
             ELSE IF adj /\ last.k = "num" /\ IsWordKind(TokenKind(x))
                 \* a word may not start right after a numeric literal
                 THEN tokenize(code, i + 1, Append(toks, Token(x, "bad", nl)), FALSE, TRUE)
             ELSE IF adj /\ last.k \in {"id", "kw", "lit"} /\ IsWordKind(TokenKind(x))
                 THEN tokenize(code, i + 1,
                               ReplaceLast(toks, Token(last.v \o x, TokenKind(last.v \o x),
                                                       last.nl)), nl, TRUE)
             ELSE tokenize(code, i + 1, Append(toks, Token(x, TokenKind(x), nl)), FALSE, TRUE)

\* the token at i is the punctuator or keyword v
Is(toks, i, v) == toks[i].k \in {"punct", "kw"} /\ toks[i].v = v

\* a parse so far: the node (or the list of nodes) read, and the next token
Ok(n, i) == [ok |-> TRUE, n |-> n, i |-> i]

Fail == [ok |-> FALSE, n |-> None, i |-> 1]

\* the token after the end of a statement that ends at token i, 0 when it does not end
consumeSemicolon(toks, i) ==
    IF Is(toks, i, ";") THEN i + 1
    ELSE IF toks[i].k = "eof" \/ Is(toks, i, "}") \/ toks[i].nl THEN i
    ELSE 0

\* a statement node n whose last part ends at token i
Ended(toks, n, i) ==
    IF consumeSemicolon(toks, i) = 0 THEN Fail ELSE Ok(n, consumeSemicolon(toks, i))

AssignmentOperators ==
    {"=", "+=", "-=", "*=", "/=", "%=", "&=", "|=", "^=", "<<=", ">>=", ">>>="}

isAssignmentTarget(n) == n.type \in {"Identifier", "MemberExpression"}

\* the precedence of the token as a binary operator, 0 when it is none
binaryPrecedence(tok, noIn) ==
    IF tok.k = "punct" THEN
        CASE tok.v = "||" -> 1
          [] tok.v = "&&" -> 2
          [] tok.v = "|" -> 3
          [] tok.v = "^" -> 4
          [] tok.v = "&" -> 5
          [] tok.v \in {"==", "!=", "===", "!=="} -> 6
          [] tok.v \in {"<", ">", "<=", ">="} -> 7
          [] tok.v \in {"<<", ">>", ">>>"} -> 8
          [] tok.v \in {"+", "-"} -> 9
          [] tok.v \in {"*", "/", "%"} -> 11
          [] OTHER -> 0
    ELSE IF tok.k = "kw" /\ tok.v = "instanceof" THEN 7
    ELSE IF tok.k = "kw" /\ tok.v = "in" /\ ~noIn THEN 7
    ELSE 0

createBinaryExpression(operator, left, right) ==
    IF operator \in {"||", "&&"} THEN AstLogical(operator, left, right)
    ELSE AstBinary(operator, left, right)

AstLabeled(label, body) == [type |-> "LabeledStatement", label |-> label, body |-> body]

AstSequence(expressions) == [type |-> "SequenceExpression", expressions |-> expressions]

RECURSIVE Parse(_, _, _, _)

\* Expression: AssignmentExpression {, AssignmentExpression}
parseExpression(toks, i, arg) ==
    LET first == Parse("AssignmentExpression", toks, i, arg) IN
    IF ~first.ok THEN Fail
    ELSE IF Is(toks, first.i, ",")
        THEN Parse("SequenceExpression", toks, first.i, [noIn |-> arg.noIn, list |-> <<first.n>>])
    ELSE first

\* the rest of a comma expression from the comma at i on
parseSequenceExpression(toks, i, arg) ==
    IF ~Is(toks, i, ",") THEN Ok(AstSequence(arg.list), i)
    ELSE LET next == Parse("AssignmentExpression", toks, i + 1, [noIn |-> arg.noIn]) IN
         IF ~next.ok THEN Fail
         ELSE Parse("SequenceExpression", toks, next.i,
                    [noIn |-> arg.noIn, list |-> Append(arg.list, next.n)])

parseAssignmentExpression(toks, i, arg) ==
    LET left == Parse("ConditionalExpression", toks, i, arg) IN
    IF ~left.ok THEN Fail
    ELSE IF toks[left.i].k = "punct" /\ toks[left.i].v \in AssignmentOperators
        THEN IF ~isAssignmentTarget(left.n) THEN Fail
             ELSE LET right == Parse("AssignmentExpression", toks, left.i + 1, arg) IN
                  IF ~right.ok THEN Fail
                  ELSE Ok(AstAssignment(toks[left.i].v, left.n, right.n), right.i)
    ELSE left

parseConditionalExpression(toks, i, arg) ==
    LET test == Parse("BinaryExpression", toks, i, [noIn |-> arg.noIn, prec |-> 0]) IN
    IF ~test.ok THEN Fail
    ELSE IF ~Is(toks, test.i, "?") THEN test
    ELSE LET consequent == Parse("AssignmentExpression", toks, test.i + 1, [noIn |-> FALSE]) IN
         IF ~consequent.ok \/ ~Is(toks, consequent.i, ":") THEN Fail
         ELSE LET alternate == Parse("AssignmentExpression", toks, consequent.i + 1, arg) IN
              IF ~alternate.ok THEN Fail
              ELSE Ok(AstConditional(test.n, consequent.n, alternate.n), alternate.i)

\* a unary expression and the binary operators of a precedence above arg.prec after it
parseBinaryExpression(toks, i, arg) ==
    LET left == Parse("UnaryExpression", toks, i, arg) IN
    IF ~left.ok THEN Fail
    ELSE Parse("BinaryOperators", toks, left.i,
               [noIn |-> arg.noIn, prec |-> arg.prec, left |-> left.n])

\* the binary operators of a precedence above arg.prec that follow the operand arg.left
parseBinaryOperators(toks, i, arg) ==
    LET prec == binaryPrecedence(toks[i], arg.noIn) IN
    IF prec <= arg.prec THEN Ok(arg.left, i)
    ELSE LET right == Parse("BinaryExpression", toks, i + 1,
                            [noIn |-> arg.noIn, prec |-> prec]) IN
         IF ~right.ok THEN Fail
         ELSE Parse("BinaryOperators", toks, right.i,
                    [noIn |-> arg.noIn, prec |-> arg.prec,
                     left |-> createBinaryExpression(toks[i].v, arg.left, right.n)])

parseUnaryExpression(toks, i, arg) ==
    IF Is(toks, i, "++") \/ Is(toks, i, "--")
        THEN LET argument == Parse("UnaryExpression", toks, i + 1, arg) IN
             IF ~argument.ok \/ ~isAssignmentTarget(argument.n) THEN Fail
             ELSE Ok(AstUpdate(toks[i].v, argument.n, TRUE), argument.i)
    ELSE IF \/ toks[i].k = "punct" /\ toks[i].v \in {"+", "-", "~", "!"}
            \/ toks[i].k = "kw" /\ toks[i].v \in {"delete", "void", "typeof"}
        THEN LET argument == Parse("UnaryExpression", toks, i + 1, arg) IN
             IF ~argument.ok THEN Fail
             ELSE Ok(AstUnary(toks[i].v, argument.n), argument.i)
    ELSE Parse("PostfixExpression", toks, i, arg)

parsePostfixExpression(toks, i, arg) ==
    LET expr == Parse("LeftHandSideExpression", toks, i, [call |-> TRUE]) IN
    IF ~expr.ok THEN Fail
    ELSE IF (Is(toks, expr.i, "++") \/ Is(toks, expr.i, "--")) /\ ~toks[expr.i].nl
        THEN IF ~isAssignmentTarget(expr.n) THEN Fail
             ELSE Ok(AstUpdate(toks[expr.i].v, expr.n, FALSE), expr.i + 1)
    ELSE expr

\* a primary or new expression and the member accesses (and, with arg.call, the calls)
\* after it
parseLeftHandSideExpression(toks, i, arg) ==
    LET expr == IF Is(toks, i, "new") THEN Parse("NewExpression", toks, i, arg)
                ELSE Parse("PrimaryExpression", toks, i, arg) IN
    IF ~expr.ok THEN Fail
    ELSE Parse("Accesses", toks, expr.i, [call |-> arg.call, left |-> expr.n])

\* the .name, [expression] and (arguments) that follow the expression arg.left
parseAccesses(toks, i, arg) ==
    IF Is(toks, i, ".")
        THEN IF toks[i + 1].k \notin {"id", "kw", "lit"} THEN Fail
             ELSE Parse("Accesses", toks, i + 2,
                        [call |-> arg.call,
                         left |-> AstMember(arg.left, AstIdentifier(toks[i + 1].v), FALSE)])
    ELSE IF Is(toks, i, "[")
        THEN LET property == Parse("Expression", toks, i + 1, [noIn |-> FALSE]) IN
             IF ~property.ok \/ ~Is(toks, property.i, "]") THEN Fail
             ELSE Parse("Accesses", toks, property.i + 1,
                        [call |-> arg.call, left |-> AstMember(arg.left, property.n, TRUE)])
    ELSE IF Is(toks, i, "(") /\ arg.call
        THEN LET args == Parse("Arguments", toks, i + 1, [list |-> <<>>]) IN
             IF ~args.ok THEN Fail
             ELSE Parse("Accesses", toks, args.i,
                        [call |-> arg.call, left |-> AstCall(arg.left, args.n)])
    ELSE Ok(arg.left, i)

parseNewExpression(toks, i, arg) ==
    LET callee == Parse("LeftHandSideExpression", toks, i + 1, [call |-> FALSE]) IN
    IF ~callee.ok THEN Fail
    ELSE IF Is(toks, callee.i, "(")
        THEN LET args == Parse("Arguments", toks, callee.i + 1, [list |-> <<>>]) IN
             IF ~args.ok THEN Fail ELSE Ok(AstNew(callee.n, args.n), args.i)
    ELSE Ok(AstNew(callee.n, <<>>), callee.i)

\* the arguments of a call after its "(" or after a comma, up to its ")"
parseArguments(toks, i, arg) ==
    IF Is(toks, i, ")") /\ arg.list = <<>> THEN Ok(<<>>, i + 1)
    ELSE LET expr == Parse("AssignmentExpression", toks, i, [noIn |-> FALSE]) IN
         IF ~expr.ok THEN Fail
         ELSE IF Is(toks, expr.i, ",")
             THEN Parse("Arguments", toks, expr.i + 1, [list |-> Append(arg.list, expr.n)])
         ELSE IF Is(toks, expr.i, ")") THEN Ok(Append(arg.list, expr.n), expr.i + 1)
         ELSE Fail

parsePrimaryExpression(toks, i, arg) ==
    CASE toks[i].k = "id" -> Ok(AstIdentifier(toks[i].v), i + 1)
      [] toks[i].k \in {"num", "lit"} -> Ok(AstLiteral(toks[i].v), i + 1)
      [] toks[i].k = "regex" -> Ok(AstRegex(toks[i].v), i + 1)
      [] Is(toks, i, "this") -> Ok(AstThis, i + 1)
      [] Is(toks, i, "(") ->
            LET expr == Parse("Expression", toks, i + 1, [noIn |-> FALSE]) IN
            IF ~expr.ok \/ ~Is(toks, expr.i, ")") THEN Fail ELSE Ok(expr.n, expr.i + 1)
      [] Is(toks, i, "[") -> Parse("ArrayInitialiser", toks, i + 1, [list |-> <<>>])
      [] Is(toks, i, "{") -> Parse("ObjectInitialiser", toks, i + 1, [list |-> <<>>])
      [] Is(toks, i, "function") -> Parse("Function", toks, i, [declaration |-> FALSE])
      [] OTHER -> Fail

\* the elements of an array literal after its "[" or after a comma, up to its "]"
parseArrayInitialiser(toks, i, arg) ==
    IF Is(toks, i, "]") THEN Ok(AstArray(arg.list), i + 1)
    ELSE IF Is(toks, i, ",")
        THEN Parse("ArrayInitialiser", toks, i + 1, [list |-> Append(arg.list, None)])
    ELSE LET expr == Parse("AssignmentExpression", toks, i, [noIn |-> FALSE]) IN
         IF ~expr.ok THEN Fail
         ELSE IF Is(toks, expr.i, ",")
             THEN Parse("ArrayInitialiser", toks, expr.i + 1,
                        [list |-> Append(arg.list, expr.n)])
         ELSE IF Is(toks, expr.i, "]") THEN Ok(AstArray(Append(arg.list, expr.n)), expr.i + 1)
         ELSE Fail

\* the properties of an object literal after its "{" or after a comma, up to its "}"
parseObjectInitialiser(toks, i, arg) ==
    IF Is(toks, i, "}") THEN Ok(AstObject(arg.list), i + 1)
    ELSE LET property == Parse("ObjectProperty", toks, i, arg) IN
         IF ~property.ok THEN Fail
         ELSE IF Is(toks, property.i, ",")
             THEN Parse("ObjectInitialiser", toks, property.i + 1,
                        [list |-> Append(arg.list, property.n)])
         ELSE IF Is(toks, property.i, "}")
             THEN Ok(AstObject(Append(arg.list, property.n)), property.i + 1)
         ELSE Fail

isPropertyKey(tok) == tok.k \in {"id", "kw", "lit", "num"}

propertyKey(tok) == IF tok.k = "num" THEN AstLiteral(tok.v) ELSE AstIdentifier(tok.v)

parseObjectProperty(toks, i, arg) ==
    IF ~isPropertyKey(toks[i]) THEN Fail
    ELSE IF toks[i].k = "id" /\ toks[i].v \in {"get", "set"} /\ isPropertyKey(toks[i + 1])
        THEN LET value == Parse("FunctionRest", toks, i + 2,
                                [type |-> "FunctionExpression", id |-> None]) IN
             IF ~value.ok THEN Fail
             ELSE Ok(AstProperty(propertyKey(toks[i + 1]), value.n, toks[i].v,
                                 FALSE, FALSE, FALSE), value.i)
    ELSE IF Is(toks, i + 1, ":")
        THEN LET value == Parse("AssignmentExpression", toks, i + 2, [noIn |-> FALSE]) IN
             IF ~value.ok THEN Fail
             ELSE Ok(AstProperty(propertyKey(toks[i]), value.n, "init", FALSE, FALSE, FALSE),
                     value.i)
    ELSE IF Is(toks, i + 1, "(")
        THEN LET value == Parse("FunctionRest", toks, i + 1,
                                [type |-> "FunctionExpression", id |-> None]) IN
             IF ~value.ok THEN Fail
             ELSE Ok(AstProperty(propertyKey(toks[i]), value.n, "init", TRUE, FALSE, FALSE),
                     value.i)
    ELSE IF toks[i].k = "id"
        THEN Ok(AstProperty(propertyKey(toks[i]), propertyKey(toks[i]), "init",
                            FALSE, TRUE, FALSE), i + 1)
    ELSE Fail

\* function, its name when it has one, and the rest
parseFunction(toks, i, arg) ==
    IF toks[i + 1].k = "id"
        THEN Parse("FunctionRest", toks, i + 2,
                   [type |-> IF arg.declaration THEN "FunctionDeclaration"
                             ELSE "FunctionExpression",
                    id |-> AstIdentifier(toks[i + 1].v)])
    ELSE IF arg.declaration THEN Fail
    ELSE Parse("FunctionRest", toks, i + 1, [type |-> "FunctionExpression", id |-> None])

\* ( params ) { body } of the function arg.type named arg.id
parseFunctionRest(toks, i, arg) ==
    IF ~Is(toks, i, "(") THEN Fail
    ELSE LET params == Parse("Params", toks, i + 1, [list |-> <<>>]) IN
         IF ~params.ok \/ ~Is(toks, params.i, "{") THEN Fail
         ELSE LET body == Parse("StatementList", toks, params.i + 1, [list |-> <<>>]) IN
              IF ~body.ok \/ ~Is(toks, body.i, "}") THEN Fail
              ELSE Ok(AstFunction(arg.type, arg.id, params.n, <<>>, AstBlock(body.n),
                                  FALSE, FALSE), body.i + 1)

\* the parameters of a function after its "(" or after a comma, up to its ")"
parseParams(toks, i, arg) ==
    IF Is(toks, i, ")") /\ arg.list = <<>> THEN Ok(<<>>, i + 1)
    ELSE IF toks[i].k # "id" THEN Fail
    ELSE IF Is(toks, i + 1, ",")
        THEN Parse("Params", toks, i + 2, [list |-> Append(arg.list, AstIdentifier(toks[i].v))])
    ELSE IF Is(toks, i + 1, ")")
        THEN Ok(Append(arg.list, AstIdentifier(toks[i].v)), i + 2)
    ELSE Fail

\* the statements up to the "}" that closes them or the end of the text
parseStatementList(toks, i, arg) ==
    IF toks[i].k = "eof" \/ Is(toks, i, "}") THEN Ok(arg.list, i)
    ELSE LET statement == Parse("Statement", toks, i, [item |-> TRUE]) IN
         IF ~statement.ok THEN Fail
         ELSE Parse("StatementList", toks, statement.i, [list |-> Append(arg.list, statement.n)])

parseBlock(toks, i, arg) ==
    LET body == Parse("StatementList", toks, i + 1, [list |-> <<>>]) IN
    IF ~body.ok \/ ~Is(toks, body.i, "}") THEN Fail ELSE Ok(AstBlock(body.n), body.i + 1)

\* the declarators of a declaration of kind arg.kind, after its keyword or after a comma
parseVariableDeclarationList(toks, i, arg) ==
    IF toks[i].k # "id" THEN Fail
    ELSE LET init == IF Is(toks, i + 1, "=")
                     THEN Parse("AssignmentExpression", toks, i + 2, [noIn |-> arg.noIn])
                     ELSE Ok(None, i + 1)
             list == Append(arg.list, AstDeclarator(AstIdentifier(toks[i].v), init.n))
         IN  IF ~init.ok THEN Fail
             ELSE IF arg.kind = "const" /\ ~Is(toks, i + 1, "=") /\ ~Is(toks, i + 1, "in")
                 THEN Fail
             ELSE IF Is(toks, init.i, ",")
                 THEN Parse("VariableDeclarationList", toks, init.i + 1,
                            [list |-> list, noIn |-> arg.noIn, kind |-> arg.kind])
             ELSE Ok(list, init.i)

parseVariableStatement(toks, i, arg) ==
    LET declarations == Parse("VariableDeclarationList", toks, i + 1,
                              [list |-> <<>>, noIn |-> FALSE, kind |-> toks[i].v]) IN
    IF ~declarations.ok THEN Fail
    ELSE Ended(toks, AstVariableDeclaration(declarations.n, toks[i].v), declarations.i)

parseExpressionStatement(toks, i, arg) ==
    LET expr == Parse("Expression", toks, i, [noIn |-> FALSE]) IN
    IF ~expr.ok THEN Fail ELSE Ended(toks, AstExpressionStatement(expr.n), expr.i)

parseIfStatement(toks, i, arg) ==
    IF ~Is(toks, i + 1, "(") THEN Fail
    ELSE LET test == Parse("Expression", toks, i + 2, [noIn |-> FALSE]) IN
         IF ~test.ok \/ ~Is(toks, test.i, ")") THEN Fail
         ELSE LET consequent == Parse("Statement", toks, test.i + 1, [item |-> FALSE]) IN
              IF ~consequent.ok THEN Fail
              ELSE IF ~Is(toks, consequent.i, "else")
                  THEN Ok(AstIf(test.n, consequent.n, None), consequent.i)
              ELSE LET alternate == Parse("Statement", toks, consequent.i + 1,
                                          [item |-> FALSE]) IN
                   IF ~alternate.ok THEN Fail
                   ELSE Ok(AstIf(test.n, consequent.n, alternate.n), alternate.i)

parseWhileStatement(toks, i, arg) ==
    IF ~Is(toks, i + 1, "(") THEN Fail
    ELSE LET test == Parse("Expression", toks, i + 2, [noIn |-> FALSE]) IN
         IF ~test.ok \/ ~Is(toks, test.i, ")") THEN Fail
         ELSE LET body == Parse("Statement", toks, test.i + 1, [item |-> FALSE]) IN
              IF ~body.ok THEN Fail ELSE Ok(AstWhile(test.n, body.n), body.i)

\* the first part of a for statement, after its "(": nothing, a declaration or an expression
parseForInit(toks, i, arg) ==
    IF Is(toks, i, ";") THEN Ok(None, i)
    ELSE IF Is(toks, i, "var") \/ Is(toks, i, "let") \/ Is(toks, i, "const")
        THEN LET declarations == Parse("VariableDeclarationList", toks, i + 1,
                                       [list |-> <<>>, noIn |-> TRUE, kind |-> toks[i].v]) IN
             IF ~declarations.ok THEN Fail
             ELSE Ok(AstVariableDeclaration(declarations.n, toks[i].v), declarations.i)
    ELSE Parse("Expression", toks, i, [noIn |-> TRUE])

\* an expression up to the token close, or nothing when the token is there already
parseOptionalExpression(toks, i, arg) ==
    IF Is(toks, i, arg.close) THEN Ok(None, i)
    ELSE Parse("Expression", toks, i, [noIn |-> FALSE])

isForInLeft(n) ==
    \/ isAssignmentTarget(n)
    \/ n.type = "VariableDeclaration" /\ Len(n.declarations) = 1
          /\ n.declarations[1].init = None

parseForStatement(toks, i, arg) ==
    IF ~Is(toks, i + 1, "(") THEN Fail
    ELSE LET init == Parse("ForInit", toks, i + 2, arg) IN
         IF ~init.ok THEN Fail
         ELSE IF Is(toks, init.i, "in")
             THEN IF init.n = None \/ ~isForInLeft(init.n) THEN Fail
                  ELSE LET right == Parse("Expression", toks, init.i + 1, [noIn |-> FALSE]) IN
                       IF ~right.ok \/ ~Is(toks, right.i, ")") THEN Fail
                       ELSE LET body == Parse("Statement", toks, right.i + 1,
                                              [item |-> FALSE]) IN
                            IF ~body.ok THEN Fail
                            ELSE Ok(AstForIn(init.n, right.n, body.n, FALSE), body.i)
         ELSE IF ~Is(toks, init.i, ";") THEN Fail
         ELSE LET test == Parse("OptionalExpression", toks, init.i + 1, [close |-> ";"]) IN
              IF ~test.ok \/ ~Is(toks, test.i, ";") THEN Fail
              ELSE LET update == Parse("OptionalExpression", toks, test.i + 1,
                                       [close |-> ")"]) IN
                   IF ~update.ok \/ ~Is(toks, update.i, ")") THEN Fail
                   ELSE LET body == Parse("Statement", toks, update.i + 1,
                                          [item |-> FALSE]) IN
                        IF ~body.ok THEN Fail
                        ELSE Ok(AstFor(init.n, test.n, update.n, body.n), body.i)

\* catch ( name ) block, when the token at i is catch
parseCatchClause(toks, i, arg) ==
    IF ~Is(toks, i, "catch") THEN Ok(None, i)
    ELSE IF ~Is(toks, i + 1, "(") \/ toks[i + 2].k # "id" \/ ~Is(toks, i + 3, ")")
            \/ ~Is(toks, i + 4, "{")
        THEN Fail
    ELSE LET body == Parse("Block", toks, i + 4, arg) IN
         IF ~body.ok THEN Fail
         ELSE Ok(AstCatch(AstIdentifier(toks[i + 2].v), body.n), body.i)

\* finally block, when the token at i is finally
parseFinalizer(toks, i, arg) ==
    IF ~Is(toks, i, "finally") THEN Ok(None, i)
    ELSE IF ~Is(toks, i + 1, "{") THEN Fail
    ELSE Parse("Block", toks, i + 1, arg)

parseTryStatement(toks, i, arg) ==
    IF ~Is(toks, i + 1, "{") THEN Fail
    ELSE LET block == Parse("Block", toks, i + 1, arg) IN
         IF ~block.ok THEN Fail
         ELSE LET handler == Parse("CatchClause", toks, block.i, arg) IN
              IF ~handler.ok THEN Fail
              ELSE LET finalizer == Parse("Finalizer", toks, handler.i, arg) IN
                   IF ~finalizer.ok THEN Fail
                   ELSE IF handler.n = None /\ finalizer.n = None THEN Fail
                   ELSE Ok(AstTry(block.n, <<>>,
                                  IF handler.n = None THEN <<>> ELSE <<handler.n>>,
                                  handler.n, finalizer.n), finalizer.i)

parseReturnStatement(toks, i, arg) ==
    IF consumeSemicolon(toks, i + 1) # 0 THEN Ended(toks, AstReturn(None), i + 1)
    ELSE LET argument == Parse("Expression", toks, i + 1, [noIn |-> FALSE]) IN
         IF ~argument.ok THEN Fail ELSE Ended(toks, AstReturn(argument.n), argument.i)

parseThrowStatement(toks, i, arg) ==
    IF toks[i + 1].nl THEN Fail
    ELSE LET argument == Parse("Expression", toks, i + 1, [noIn |-> FALSE]) IN
         IF ~argument.ok THEN Fail ELSE Ended(toks, AstThrow(argument.n), argument.i)

\* break and continue
parseBreakStatement(toks, i, arg) ==
    LET label == IF toks[i + 1].k = "id" /\ ~toks[i + 1].nl
                 THEN Ok(AstIdentifier(toks[i + 1].v), i + 2) ELSE Ok(None, i + 1) IN
    Ended(toks, IF toks[i].v = "break" THEN AstBreak(label.n) ELSE AstContinue(label.n),
          label.i)

parseLabelledStatement(toks, i, arg) ==
    LET body == Parse("Statement", toks, i + 2, [item |-> FALSE]) IN
    IF ~body.ok THEN Fail ELSE Ok(AstLabeled(AstIdentifier(toks[i].v), body.n), body.i)

\* a statement; arg.item: it is an item of a statement list, where let and const may be
parseStatement(toks, i, arg) ==
    CASE Is(toks, i, "{") -> Parse("Block", toks, i, arg)
      [] Is(toks, i, ";") -> Ok(AstEmpty, i + 1)
      [] Is(toks, i, "var") -> Parse("VariableStatement", toks, i, arg)
      [] (Is(toks, i, "let") \/ Is(toks, i, "const")) /\ arg.item ->
            Parse("VariableStatement", toks, i, arg)
      [] Is(toks, i, "if") -> Parse("IfStatement", toks, i, arg)
      [] Is(toks, i, "for") -> Parse("ForStatement", toks, i, arg)
      [] Is(toks, i, "while") -> Parse("WhileStatement", toks, i, arg)
      [] Is(toks, i, "try") -> Parse("TryStatement", toks, i, arg)
      [] Is(toks, i, "function") -> Parse("Function", toks, i, [declaration |-> TRUE])
      [] Is(toks, i, "return") -> Parse("ReturnStatement", toks, i, arg)
      [] Is(toks, i, "throw") -> Parse("ThrowStatement", toks, i, arg)
      [] Is(toks, i, "break") \/ Is(toks, i, "continue") ->
            Parse("BreakStatement", toks, i, arg)
      [] toks[i].k = "id" /\ Is(toks, i + 1, ":") -> Parse("LabelledStatement", toks, i, arg)
      [] OTHER -> Parse("ExpressionStatement", toks, i, arg)

parseProgram(toks, i, arg) ==
    LET body == Parse("StatementList", toks, i, [list |-> <<>>]) IN
    IF ~body.ok \/ toks[body.i].k # "eof" THEN Fail ELSE Ok(AstProgram(body.n), body.i)

\* the rule named rule, read from token i on
Parse(rule, toks, i, arg) ==
    CASE rule = "Program" -> parseProgram(toks, i, arg)
      [] rule = "StatementList" -> parseStatementList(toks, i, arg)
      [] rule = "Statement" -> parseStatement(toks, i, arg)
      [] rule = "Block" -> parseBlock(toks, i, arg)
      [] rule = "VariableStatement" -> parseVariableStatement(toks, i, arg)
      [] rule = "VariableDeclarationList" -> parseVariableDeclarationList(toks, i, arg)
      [] rule = "ExpressionStatement" -> parseExpressionStatement(toks, i, arg)
      [] rule = "IfStatement" -> parseIfStatement(toks, i, arg)
      [] rule = "WhileStatement" -> parseWhileStatement(toks, i, arg)
      [] rule = "ForStatement" -> parseForStatement(toks, i, arg)
      [] rule = "ForInit" -> parseForInit(toks, i, arg)
      [] rule = "OptionalExpression" -> parseOptionalExpression(toks, i, arg)
      [] rule = "TryStatement" -> parseTryStatement(toks, i, arg)
      [] rule = "CatchClause" -> parseCatchClause(toks, i, arg)
      [] rule = "Finalizer" -> parseFinalizer(toks, i, arg)
      [] rule = "ReturnStatement" -> parseReturnStatement(toks, i, arg)
      [] rule = "ThrowStatement" -> parseThrowStatement(toks, i, arg)
      [] rule = "BreakStatement" -> parseBreakStatement(toks, i, arg)
      [] rule = "LabelledStatement" -> parseLabelledStatement(toks, i, arg)
      [] rule = "Function" -> parseFunction(toks, i, arg)
      [] rule = "FunctionRest" -> parseFunctionRest(toks, i, arg)
      [] rule = "Params" -> parseParams(toks, i, arg)
      [] rule = "Expression" -> parseExpression(toks, i, arg)
      [] rule = "SequenceExpression" -> parseSequenceExpression(toks, i, arg)
      [] rule = "AssignmentExpression" -> parseAssignmentExpression(toks, i, arg)
      [] rule = "ConditionalExpression" -> parseConditionalExpression(toks, i, arg)
      [] rule = "BinaryExpression" -> parseBinaryExpression(toks, i, arg)
      [] rule = "BinaryOperators" -> parseBinaryOperators(toks, i, arg)
      [] rule = "UnaryExpression" -> parseUnaryExpression(toks, i, arg)
      [] rule = "PostfixExpression" -> parsePostfixExpression(toks, i, arg)
      [] rule = "LeftHandSideExpression" -> parseLeftHandSideExpression(toks, i, arg)
      [] rule = "Accesses" -> parseAccesses(toks, i, arg)
      [] rule = "NewExpression" -> parseNewExpression(toks, i, arg)
      [] rule = "Arguments" -> parseArguments(toks, i, arg)
      [] rule = "PrimaryExpression" -> parsePrimaryExpression(toks, i, arg)
      [] rule = "ArrayInitialiser" -> parseArrayInitialiser(toks, i, arg)
      [] rule = "ObjectInitialiser" -> parseObjectInitialiser(toks, i, arg)
      [] rule = "ObjectProperty" -> parseObjectProperty(toks, i, arg)

\* parse(jssource): the Program node of the text, or no node when the text has a
\* syntax error
parse(jssource) == Parse("Program", tokenize(jssource, 1, <<>>, FALSE, FALSE), 1, None)

(***************************************************************************)
(* The inputs: the generic trees of a bounded set of source programs.      *)
(***************************************************************************)
\* statements of the programs with several statements
MaxStmts == 2

\* calls of load in one process
MaxLoads == 2

a == AstIdentifier("a")

b == AstIdentifier("b")

one == AstLiteral("1")

\* a   b   1   this   /x/
Leaves == {a, b, one, AstThis, AstRegex("/x/")}

\* the expressions with leaf operands, one or more of each shape
Compounds ==
    {AstBinary("+", a, b), AstBinary("*", a, one), AstLogical("||", a, b),
     AstAssignment("=", a, b),
     AstMember(a, b, FALSE), AstMember(a, b, TRUE), AstMember(one, b, FALSE),
     AstMember(AstThis, b, FALSE),
     AstCall(a, <<>>), AstCall(a, <<b, one>>), AstNew(a, <<>>), AstNew(a, <<b>>),
     AstUnary("-", a), AstUnary("!", a), AstUnary("typeof", a), AstUnary("void", one),
     AstUnary("delete", a), AstUpdate("++", a, FALSE), AstUpdate("--", a, TRUE),
     AstConditional(a, b, one),
     AstArray(<<>>), AstArray(<<a, one>>),
     AstObject(<<AstProperty(a, one, "init", FALSE, FALSE, FALSE),
                 AstProperty(b, b, "init", FALSE, TRUE, FALSE)>>),
     AstFunction("FunctionExpression", None, <<a>>, <<>>, AstBlock(<<AstReturn(a)>>),
                 FALSE, FALSE)}

\* an expression e as the compound child of every operator position
Nested(e) ==
    {AstBinary("*", e, b), AstBinary("*", a, e), AstLogical("&&", e, b),
     AstLogical("&&", a, e), AstAssignment("=", a, e),
     AstMember(e, b, FALSE), AstMember(e, b, TRUE), AstMember(a, e, TRUE),
     AstCall(e, <<>>), AstCall(a, <<e>>), AstNew(e, <<>>),
     AstUnary("-", e), AstUnary("typeof", e),
     AstConditional(e, a, b), AstConditional(a, e, b), AstConditional(a, b, e),
     AstArray(<<e>>)}

Expressions == Leaves \cup Compounds \cup UNION {Nested(e) : e \in Compounds}

ExprStmt(e) == AstExpressionStatement(e)

\* f() as a statement
CallStmt == ExprStmt(AstCall(AstIdentifier("f"), <<>>))

VarX(init) == AstDeclarator(AstIdentifier("x"), init)

VarY(init) == AstDeclarator(AstIdentifier("y"), init)

\* the bodies of if, for, while and for-in
Bodies == {CallStmt, AstEmpty, AstBlock(<<>>), AstBlock(<<CallStmt>>),
           AstVariableDeclaration(<<VarX(one)>>, "var")}

\* a const declarator has an initializer
Declarations ==
    {d \in {AstVariableDeclaration(ds, k) :
                ds \in {<<VarX(None)>>, <<VarX(AstBinary("+", one, AstLiteral("2")))>>,
                        <<VarX(one), VarY(None)>>,
                        <<VarX(one), VarY(a), AstDeclarator(b, b)>>},
                k \in {"var", "let", "const"}} :
        d.kind = "const" => \A i \in DOMAIN d.declarations : d.declarations[i].init # None}

\* function f(a = 1, b = 1) {...}: params [a, b] and defaults [1, 1]
Functions ==
    {f \in {AstFunction("FunctionDeclaration", AstIdentifier("f"), ps, ds, body, g, e) :
                ps \in {<<>>, <<a, b>>, <<AstArray(<<a>>)>>},
                ds \in {<<>>, <<one, one>>},
                body \in {AstBlock(<<>>), AstBlock(<<AstReturn(a)>>), a},
                g \in BOOLEAN, e \in BOOLEAN} :
        Len(f.defaults) \in {0, Len(f.params)}}
    \cup
    {AstFunction("FunctionExpression", None, <<a>>, ds, body, g, e) :
        ds \in {<<>>, <<one>>},
        body \in {AstBlock(<<>>), a},
        g \in BOOLEAN, e \in BOOLEAN}

CatchA == AstCatch(a, AstBlock(<<CallStmt>>))

\* catch ([a]) {...}: a destructured catch parameter
CatchPattern == AstCatch(AstArray(<<a>>), AstBlock(<<>>))

\* a try statement has a catch clause or a finally block
Tries ==
    {t \in {AstTry(AstBlock(<<CallStmt>>), gh, hs, h, f) :
                gh \in {<<>>, <<CatchA>>},
                hs \in {<<>>, <<CatchA>>, <<CatchA, CatchA>>},
                h \in {None, CatchA},
                f \in {None, AstBlock(<<>>), AstBlock(<<AstThrow(a)>>)}} :
        t.guardedHandlers # <<>> \/ t.handlers # <<>> \/ t.handler # None
            \/ t.finalizer # None}
    \cup {AstTry(AstBlock(<<>>), <<>>, <<CatchPattern>>, CatchPattern, None)}

Loops ==
    {AstFor(i, t, u, body) :
        i \in {None, AstAssignment("=", a, one), AstVariableDeclaration(<<VarX(one)>>, "var"),
               AstVariableDeclaration(<<VarX(one), VarY(a)>>, "var")},
        t \in {None, AstBinary("<", a, one)},
        u \in {None, AstUpdate("++", a, FALSE)},
        body \in {CallStmt, AstEmpty, AstBlock(<<CallStmt>>)}}
    \cup {AstWhile(a, body) : body \in Bodies}
    \cup {AstForIn(a, b, body, each) : body \in Bodies, each \in BOOLEAN}

Conditionals ==
    {AstIf(a, c, alt) : c \in Bodies, alt \in {None} \cup Bodies}
    \cup {AstIf(a, CallStmt, AstIf(b, CallStmt, None))}

\* function f() { st }
InFunction(st) ==
    AstFunction("FunctionDeclaration", AstIdentifier("f"), <<>>, <<>>, AstBlock(<<st>>),
                FALSE, FALSE)

\* return in a function, break and continue in a loop, with a label in a labelled loop
Actions ==
    {InFunction(AstReturn(a)), InFunction(AstReturn(None)),
     InFunction(AstReturn(AstBinary("+", a, b))), AstThrow(a),
     AstWhile(a, AstBreak(None)), AstWhile(a, AstBlock(<<AstContinue(None)>>)),
     AstLabeled(a, AstWhile(a, AstBreak(a))), AstLabeled(a, AstWhile(a, AstContinue(a)))}

Others ==
    {AstEmpty, AstBlock(<<>>), AstBlock(<<CallStmt, AstBlock(<<CallStmt>>)>>),
     AstBlock(<<AstVariableDeclaration(<<VarX(one), VarY(None)>>, "var"), CallStmt>>),
     AstBlock(<<AstBlock(<<CallStmt>>), CallStmt>>),
     AstBlock(<<ExprStmt(AstArray(<<a>>))>>),
     ExprStmt(AstBinary("*", AstBinary("+", a, b), AstIdentifier("c"))),
     [type |-> "WithStatement", object |-> a, body |-> AstEmpty],
     ExprStmt([type |-> "SequenceExpression", expressions |-> <<a, b>>]),
     ExprStmt(AstArray(<<None, a>>)),
     ExprStmt(AstFunction("FunctionExpression", AstIdentifier("f"), <<>>, <<>>, AstBlock(<<>>),
                          FALSE, FALSE))}

Statements ==
    {ExprStmt(e) : e \in Expressions} \cup Declarations \cup {ExprStmt(f) : f \in
        {g \in Functions : g.type = "FunctionExpression"}}
    \cup {f \in Functions : f.type = "FunctionDeclaration"}
    \cup Tries \cup Loops \cup Conditionals \cup Actions \cup Others

\* the statements the programs with several statements are made of
Several ==
    {CallStmt, AstVariableDeclaration(<<VarX(one), VarY(None)>>, "var"),
     AstBlock(<<CallStmt>>), AstThrow(a), ExprStmt(AstArray(<<a>>))}

RECURSIVE Sequences(_, _)
\* the sequences over set of a length up to n
Sequences(set, n) ==
    IF n = 0 THEN {<<>>}
    ELSE LET shorter == Sequences(set, n - 1) IN
         shorter \cup {Append(q, x) : q \in shorter, x \in set}

\* properties of one object literal
MaxProps == 2

\* function () { return a }   and   function (a) {}
MethodValue ==
    AstFunction("FunctionExpression", None, <<>>, <<>>, AstBlock(<<AstReturn(a)>>),
                FALSE, FALSE)

SetterValue ==
    AstFunction("FunctionExpression", None, <<a>>, <<>>, AstBlock(<<>>), FALSE, FALSE)

\* a: 1   b   a() {...}
Properties ==
    {AstProperty(a, one, "init", FALSE, FALSE, FALSE),
     AstProperty(b, b, "init", FALSE, TRUE, FALSE),
     AstProperty(a, MethodValue, "init", TRUE, FALSE, FALSE)}

\* get a() {...}   set b(a) {}   and a method with both flags set
Accessors ==
    {AstProperty(a, MethodValue, "get", FALSE, FALSE, FALSE),
     AstProperty(b, SetterValue, "set", FALSE, FALSE, FALSE),
     AstProperty(b, MethodValue, "init", TRUE, TRUE, FALSE)}

\* the properties load refuses: a raw kind of its own, [a]: 1, 1: 1, [a.b]: 1
Unsupported ==
    {AstProperty(a, one, "spread", FALSE, FALSE, FALSE),
     AstProperty(a, one, "init", FALSE, FALSE, TRUE),
     AstProperty(one, one, "init", FALSE, FALSE, FALSE),
     AstProperty(AstMember(a, b, FALSE), one, "init", FALSE, FALSE, TRUE)}

\* a = {...};
ObjectProgram(properties) ==
    AstProgram(<<ExprStmt(AstAssignment("=", a, AstObject(properties)))>>)

\* the objects of init, shorthand and method properties, and those with one accessor or
\* one unsupported property, alone or before or after another property
ObjectPrograms ==
    {ObjectProgram(ps) : ps \in Sequences(Properties, MaxProps)}
    \cup {ObjectProgram(ps) :
            ps \in UNION {{<<u>>, <<u, AstProperty(b, b, "init", FALSE, TRUE, FALSE)>>,
                           <<AstProperty(a, one, "init", FALSE, FALSE, FALSE), u>>} :
                              u \in Accessors \cup Unsupported}}

Programs ==
    {AstProgram(<<st>>) : st \in Statements}
    \cup {AstProgram(body) : body \in Sequences(Several, MaxStmts)}
    \cup ObjectPrograms
    \cup {[type |-> "Module", body |-> <<>>]}

(***************************************************************************)
(* Malformed inputs: a seed tree with one field added to, or removed from, *)
(* one of its nodes.  A path is a sequence of steps [f, i]: field f of the *)
(* node, and element i of it when it is a list (0 when it is a node).      *)
(***************************************************************************)
\* the fields of a node of the given type that hold a node
NodeFields(type) ==
    CASE type = "ExpressionStatement" -> {"expression"}
      [] type = "VariableDeclarator" -> {"id", "init"}
      [] type \in {"FunctionDeclaration", "FunctionExpression"} -> {"id", "body"}
      [] type \in {"ReturnStatement", "ThrowStatement"} -> {"argument"}
      [] type \in {"IfStatement", "ConditionalExpression"} -> {"test", "consequent", "alternate"}
      [] type = "ForStatement" -> {"init", "test", "update", "body"}
      [] type = "ForInStatement" -> {"left", "right", "body"}
      [] type = "WhileStatement" -> {"test", "body"}
      [] type \in {"BreakStatement", "ContinueStatement"} -> {"label"}
      [] type = "TryStatement" -> {"block", "handler", "finalizer"}
      [] type = "CatchClause" -> {"param", "body"}
      [] type \in {"BinaryExpression", "LogicalExpression", "AssignmentExpression"} ->
            {"left", "right"}
      [] type = "MemberExpression" -> {"object", "property"}
      [] type \in {"CallExpression", "NewExpression"} -> {"callee"}
      [] type \in {"UnaryExpression", "UpdateExpression"} -> {"argument"}
      [] type = "Property" -> {"key", "value"}
      [] OTHER -> {}

\* the fields of a node of the given type that hold a list of nodes
ListFields(type) ==
    CASE type \in {"Program", "BlockStatement"} -> {"body"}
      [] type = "VariableDeclaration" -> {"declarations"}
      [] type \in {"FunctionDeclaration", "FunctionExpression"} -> {"params"}
      [] type \in {"CallExpression", "NewExpression"} -> {"arguments"}
      [] type = "ArrayExpression" -> {"elements"}
      [] type = "ObjectExpression" -> {"properties"}
      [] OTHER -> {}

Step(f, i) == [f |-> f, i |-> i]

RECURSIVE Paths(_)
\* the paths to the nodes of a tree, the root's <<>> included
Paths(n) ==
    {<<>>}
    \cup UNION {{<<Step(f, 0)>> \o q : q \in Paths(n[f])} :
                  f \in {g \in NodeFields(n.type) : n[g] # None}}
    \cup UNION {UNION {{<<Step(f, i)>> \o q : q \in Paths(n[f][i])} :
                         i \in {j \in DOMAIN n[f] : n[f][j] # None}} :
                  f \in ListFields(n.type)}

RECURSIVE At(_, _)
At(n, path) ==
    IF path = <<>> THEN n
    ELSE IF Head(path).i = 0 THEN At(n[Head(path).f], Tail(path))
    ELSE At(n[Head(path).f][Head(path).i], Tail(path))

\* the node with one more field, "extra"
AddExtra(n) == [k \in DOMAIN n \cup {"extra"} |-> IF k = "extra" THEN None ELSE n[k]]

\* the node without its field f
DropField(n, f) == [k \in DOMAIN n \ {f} |-> n[k]]

RECURSIVE WithExtra(_, _)
WithExtra(n, path) ==
    IF path = <<>> THEN AddExtra(n)
    ELSE IF Head(path).i = 0
        THEN [n EXCEPT ![Head(path).f] = WithExtra(@, Tail(path))]
    ELSE [n EXCEPT ![Head(path).f][Head(path).i] = WithExtra(@, Tail(path))]

RECURSIVE Without(_, _, _)
Without(n, path, f) ==
    IF path = <<>> THEN DropField(n, f)
    ELSE IF Head(path).i = 0
        THEN [n EXCEPT ![Head(path).f] = Without(@, Tail(path), f)]
    ELSE [n EXCEPT ![Head(path).f][Head(path).i] = Without(@, Tail(path), f)]

\* the statements whose trees are made malformed: every kind of node occurs in one
SeedStatements ==
    {AstVariableDeclaration(<<VarX(AstBinary("+", one, a))>>, "var"),
     ExprStmt(AstCall(AstMember(a, b, FALSE), <<AstUnary("-", a)>>)),
     ExprStmt(AstConditional(a, AstArray(<<b>>), AstThis)),
     ExprStmt(AstAssignment("=", a, AstObject(<<AstProperty(a, one, "init", FALSE, FALSE,
                                                             FALSE)>>))),
     ExprStmt(AstNew(a, <<AstFunction("FunctionExpression", None, <<b>>, <<>>,
                                      AstBlock(<<CallStmt>>), FALSE, FALSE)>>)),
     AstFunction("FunctionDeclaration", AstIdentifier("f"), <<a>>, <<>>,
                 AstBlock(<<AstReturn(a)>>), FALSE, FALSE),
     AstTry(AstBlock(<<CallStmt>>), <<>>, <<CatchA>>, CatchA, AstBlock(<<AstThrow(a)>>)),
     AstFor(AstVariableDeclaration(<<VarX(one)>>, "var"), AstBinary("<", a, one),
            AstUpdate("++", a, FALSE), AstBlock(<<AstBreak(None)>>)),
     AstForIn(a, b, AstContinue(None), FALSE),
     AstWhile(a, AstEmpty),
     AstIf(AstLogical("||", a, b), CallStmt, AstBlock(<<>>))}

Seeds == {AstProgram(<<st>>) : st \in SeedStatements}

ExtraInputs == UNION {{WithExtra(p, path) : path \in Paths(p)} : p \in Seeds}

AbsentInputs ==
    UNION {UNION {{Without(p, path, f) : f \in DOMAIN At(p, path) \ {"type"}} :
                     path \in Paths(p)} : p \in Seeds}

Inputs == Programs \cup ExtraInputs \cup AbsentInputs

(***************************************************************************)
(* The process: it loads a tree, may render the Program it got, and goes   *)
(* on to the next tree.  checks is the class attribute Block.checks, which *)
(* lives as long as the process.                                           *)
(***************************************************************************)
Init ==
    /\ pc = "idle"
    /\ ast = None
    /\ result = None
    /\ rules = None
    /\ text = <<>>
    /\ checks = BlockChecks
    /\ nloads = 0

\* result = load(x)
Load(x) ==
    /\ pc = "idle"
    /\ nloads < MaxLoads
    /\ ast' = x
    /\ LET loaded == load(x, checks) IN
           /\ result' = loaded.v
           /\ checks' = loaded.c
    /\ nloads' = nloads + 1
    /\ pc' = "loaded"
    /\ UNCHANGED <<rules, text>>

\* text = result.pretty(r)
Pretty(r) ==
    /\ pc = "loaded"
    /\ ~IsErr(result)
    /\ rules' = r
    /\ text' = pretty(result, r)
    /\ pc' = "rendered"
    /\ UNCHANGED <<ast, result, checks, nloads>>

\* the caller drops the tree, the Program and the text
Finish ==
    /\ pc \in {"loaded", "rendered"}
    /\ pc' = "idle"
    /\ ast' = None
    /\ result' = None
    /\ rules' = None
    /\ text' = <<>>
    /\ UNCHANGED <<checks, nloads>>

Next ==
    \/ \E x \in Inputs : Load(x)
    \/ \E r \in {JsparserRules, JsprettyRules} : Pretty(r)
    \/ Finish

Spec == Init /\ [][Next]_vars

(***************************************************************************)
(* Properties of the Loader and of the Renderer.                           *)
(***************************************************************************)
Loaded == pc \in {"loaded", "rendered"}

\* the load returned a Program
Accepted == Loaded /\ ~IsErr(result)

\* the text jsparser.Rules gave, no exception raised
Rendered == pc = "rendered" /\ rules = JsparserRules /\ ~IsErrText(text)

\* the program has one statement, of the given types
OneStatement(types) ==
    /\ Loaded
    /\ ast \in Programs
    /\ ast.type = "Program"
    /\ Len(ast.body) = 1
    /\ ast.body[1].type \in types

\* the position of the first atom of text that is x, 0 when there is none
First(x) ==
    IF \E i \in DOMAIN text : text[i] = x
    THEN CHOOSE i \in DOMAIN text : text[i] = x /\ \A j \in 1..(i - 1) : text[j] # x
    ELSE 0

\* C1: a tree with a field on no allow-list ("extra"), on any one node the Loader
\* visits, is never accepted: load raises and returns no Program.
C1_ExtraFieldRaises == (Loaded /\ ast \in ExtraInputs) => IsErr(result)

\* the function node of a program that is one function declaration, or one
\* expression statement holding a function expression
\* C2: the text pretty returns for an accepted input parses under the grammar of the
\* language.
C2_RenderedTextParses == Rendered => parse(text).ok

\* C3: no required parenthesis is omitted: for a program that is one expression
\* statement, parsing the rendered text with the precedence and associativity of the
\* language and loading the result gives the typed tree that was rendered, with every
\* operand under the operator it had.
C3_ReloadKeepsNesting ==
    (Rendered /\ OneStatement({"ExpressionStatement"}) /\ parse(text).ok)
        => load(parse(text).n, checks).v = result

FunctionNode ==
    IF ast.body[1].type = "FunctionDeclaration" THEN ast.body[1] ELSE ast.body[1].expression

IsFunctionProgram ==
    /\ OneStatement({"FunctionDeclaration", "ExpressionStatement"})
    /\ ast.body[1] \in Functions \/ ast.body[1] \in {ExprStmt(f) : f \in Functions}

\* C6: Function.load fails whenever the function is a generator, is expression-bodied,
\* has a body that is no BlockStatement, has a parameter that is no Identifier, or has
\* a non-empty list of defaults.
C6_UnsupportedFunctionRaises ==
    (/\ IsFunctionProgram
     /\ \/ FunctionNode.generator
        \/ FunctionNode.expression
        \/ FunctionNode.body.type # "BlockStatement"
        \/ \E i \in DOMAIN FunctionNode.params : FunctionNode.params[i].type # "Identifier"
        \/ Len(FunctionNode.defaults) > 0)
    => IsErr(result)

\* C8: every failure of load is an Exception raised by one of the Loader's own checks,
\* never a TypeError, KeyError or AttributeError of an unchecked access.
C8_FailuresAreStructuralViolations == (Loaded /\ IsErr(result)) => result.exc = "Exception"

\* C9: pretty returns a text and never raises, with either Rules object.
C9_PrettyNeverRaises == pc = "rendered" => ~IsErrText(text)

\* the text the Loader and the Renderer give a generic expression
TextOf(e) == pretty(ExpressionLoad_(e, BlockChecks).v, JsparserRules)

\* an operand's text: in one pair of parentheses unless the operand is a leaf
Enclosed(e) ==
    IF e.type \in {"Identifier", "Literal", "ThisExpression"} THEN TextOf(e)
    ELSE <<"(">> \o TextOf(e) \o <<")">>

\* (a + b) * c
ProductOfSum == AstProgram(<<ExprStmt(AstBinary("*", AstBinary("+", a, b), AstIdentifier("c")))>>)

ProductOfSumText == <<"(", "a", SP, "+", SP, "b", ")", SP, "*", SP, "c", ";", NL>>

\* C4: a general or logical Operation renders each operand that is no leaf in exactly
\* one added pair of parentheses and each leaf operand with none added;
\* (a + b) * c renders as "(a + b) * c".
C4_OperandsParenthesized ==
    /\ (/\ Rendered
        /\ OneStatement({"ExpressionStatement"})
        /\ ast.body[1].expression.type \in {"BinaryExpression", "LogicalExpression"})
       => LET e == ast.body[1].expression IN
          text = Enclosed(e.left) \o <<SP, e.operator, SP>> \o Enclosed(e.right)
                    \o <<";", NL>>
    /\ (Rendered /\ ast = ProductOfSum) => text = ProductOfSumText

C4_Witness == Rendered /\ ast = ProductOfSum /\ text = ProductOfSumText

\* the kinds the statement terminator follows, and the block-shaped kinds it does not
SemicolonKinds == {"Operation", "Operand", "Modifier", "ConditionalExpression", "Call",
                   "Action", "VariableDeclaration", "Object"}

BlockKinds == {"ConditionalStatement", "Loop", "Iterator", "Handler", "Block"}

Covered(st) == st.cls \in SemicolonKinds \cup BlockKinds

\* a statement occurrence: its text and then its terminator, once
Emitted(st) ==
    pretty(st, JsparserRules) \o (IF st.cls \in SemicolonKinds THEN <<";", NL>> ELSE <<>>)

RECURSIVE Flatten(_)
\* the concatenation of a sequence of sequences
Flatten(seqs) == IF seqs = <<>> THEN <<>> ELSE Head(seqs) \o Flatten(Tail(seqs))

EmittedAll(sts) == Flatten([i \in DOMAIN sts |-> Emitted(sts[i])])

Indented(code) == RulesApplyindent(JsparserRules, code)

EndsWith(t, suffix) ==
    Len(suffix) <= Len(t) /\ SubSeq(t, Len(t) - Len(suffix) + 1, Len(t)) = suffix

\* the statement st renders its body (its bodies) as occurrences
BodiesEmitted(st) ==
    LET t == pretty(st, JsparserRules) IN
    CASE st.cls = "Block" ->
            (\A i \in DOMAIN st.statements : Covered(st.statements[i]))
            => t = <<"{", NL>> \o Indented(EmittedAll(st.statements)) \o <<"}", NL>>
      [] st.cls \in {"Loop", "Iterator"} ->
            Covered(st.body) => EndsWith(t, Indented(Emitted(st.body)))
      [] st.cls = "ConditionalStatement" ->
            IF st.alternate = None
            THEN Covered(st.consequent) => EndsWith(t, Indented(Emitted(st.consequent)))
            ELSE (Covered(st.consequent) /\ Covered(st.alternate))
                 => EndsWith(t, Indented(Emitted(st.consequent)) \o <<"else", NL>>
                                    \o Indented(Emitted(st.alternate)))
      [] st.cls = "Handler" ->
            /\ SubSeq(t, 1, 2 + Len(Indented(Emitted(st.block))))
                   = <<"try", NL>> \o Indented(Emitted(st.block))
            /\ st.catcher # None /\ st.finalizer = None
                   => EndsWith(t, <<")", NL>> \o Indented(Emitted(st.catcher)))
            /\ st.finalizer # None
                   => EndsWith(t, <<"finally", SP, NL>> \o Indented(Emitted(st.finalizer)))
      [] OTHER -> TRUE

\* C5: every statement occurrence (a statement of a block, a single-statement body) is
\* its text followed by exactly one ";" when its kind is semicolon-requiring and by no
\* terminator when it is block-shaped.
C5_OneTerminatorPerStatement ==
    Rendered =>
        LET sts == result.body.statements IN
        /\ (\A i \in DOMAIN sts : Covered(sts[i])) => text = EmittedAll(sts)
        /\ \A i \in DOMAIN sts :
              /\ BodiesEmitted(sts[i])
              /\ sts[i].cls \in SemicolonKinds
                    => LET t == pretty(sts[i], JsparserRules) IN
                       t # <<>> /\ t[Len(t)] # ";"

C5_Witness ==
    /\ Rendered
    /\ Len(result.body.statements) = 2
    /\ result.body.statements[1].cls = "Call"
    /\ result.body.statements[2].cls = "Block"
    /\ text = <<"f", "(", ")", ";", NL,
                "{", NL, "    ", "f", "(", ")", ";", NL, "}", NL>>

\* the try statement of a program that is one try statement with all of its fields
TryNode == ast.body[1]

IsTryProgram ==
    /\ Loaded
    /\ ast \in Programs \cup ExtraInputs
    /\ Len(ast.body) = 1
    /\ ast.body[1].type = "TryStatement"

\* C7: Handler.load returns a Handler only for an empty guardedHandlers, a handlers list
\* of one entry with a handler and of none without, and a catch parameter that is an
\* Identifier carrying only a name; the catch and finally parts are set exactly when
\* the generic node has them, and rendered exactly when set, after the try block.
C7_HandlerValidated ==
    (IsTryProgram /\ Accepted) =>
        LET h == result.body.statements[1] IN
        /\ TryNode.guardedHandlers = <<>>
        /\ TryNode.handler # None
              => /\ Len(TryNode.handlers) = 1
                 /\ TryNode.handler.param.type = "Identifier"
                 /\ DOMAIN TryNode.handler.param = {"type", "name"}
        /\ TryNode.handler = None => Len(TryNode.handlers) = 0
        /\ (h.catcher # None) = (TryNode.handler # None)
        /\ (h.param # NoneStr) = (TryNode.handler # None)
        /\ (h.finalizer # None) = (TryNode.finalizer # None)
        /\ Rendered
              => /\ text[1] = "try"
                 /\ (First("catch") > 1) = (h.catcher # None)
                 /\ (First("finally") > 1) = (h.finalizer # None)
                 /\ (h.catcher # None /\ h.finalizer # None)
                       => First("catch") < First("finally")

C7_Witness ==
    /\ IsTryProgram
    /\ Rendered
    /\ TryNode.handler # None
    /\ TryNode.finalizer # None
    /\ 1 < First("catch")
    /\ First("catch") < First("finally")

\* the typed nodes one generic statement adds to its block
Expansion(st) ==
    IF st.type = "VariableDeclaration"
    THEN [i \in DOMAIN st.declarations |->
            [cls |-> "VariableDeclaration",
             kind |-> st.kind,
             id |-> st.declarations[i].id.name,
             expression |-> IF st.declarations[i].init = None THEN None
                            ELSE ExpressionLoad_(st.declarations[i].init, BlockChecks).v]]
    ELSE <<BlockLoadstatement_(st, BlockChecks).v>>

\* var x = 1 + 2;
VarSum == AstProgram(<<AstVariableDeclaration(
                          <<VarX(AstBinary("+", one, AstLiteral("2")))>>, "var")>>)

\* C10: a block's statements (the root block's and a nested block's) are, in order,
\* what each generic statement contributes: a VariableDeclaration of N declarators N
\* nodes in declarator order, each with the shared keyword, its own identifier and its
\* own optional initializer, and every other statement one node; "var x = 1 + 2;" loads
\* to one declaration and renders as itself.
C10_StatementsInOrder ==
    /\ (Accepted /\ ast \in Programs)
       => /\ result.body.statements
                = Flatten([i \in DOMAIN ast.body |-> Expansion(ast.body[i])])
          /\ \A i \in DOMAIN result.body.statements :
                result.body.statements[i].cls # "list"
    /\ (Accepted /\ OneStatement({"BlockStatement"}))
       => result.body.statements[1].statements
             = Flatten([i \in DOMAIN ast.body[1].body |-> Expansion(ast.body[1].body[i])])
    /\ (Accepted /\ ast = VarSum)
       => /\ result.body.statements
                = <<[cls |-> "VariableDeclaration", kind |-> "var", id |-> "x",
                     expression |->
                        Operation("+", Operand("literal", "1", "1"),
                                  Operand("literal", "2", "2"), "general")]>>
          /\ Rendered
                => text = <<"var", SP, "x", SP, "=", SP, "1", SP, "+", SP, "2", ";", NL>>

C10_Witness ==
    /\ Accepted
    /\ Len(ast.body) = 2
    /\ ast.body[1].type = "ExpressionStatement"
    /\ ast.body[2].type = "VariableDeclaration"
    /\ Len(ast.body[2].declarations) = 2
    /\ Len(result.body.statements) = 3
    /\ result.body.statements[2].id = "x"
    /\ result.body.statements[3].id = "y"

\* the kind the raw kind and the flags of a generic property stand for, "" for a
\* property that has none: a raw kind of its own, a computed key, a key that is no Identifier
KindOf(p) ==
    IF p.computed \/ p.key.type # "Identifier" THEN ""
    ELSE IF p.kind = "init"
        THEN IF p.method THEN "method" ELSE IF p.shorthand THEN "shorthand" ELSE "init"
    ELSE IF p.kind = "get" THEN "getter"
    ELSE IF p.kind = "set" THEN "setter"
    ELSE ""

\* the object literal of a = {...}; and the Object of the Program loaded from it
ObjectOf(x) == x.body[1].expression.right

ObjectIn(program) == program.body.statements[1].right

KeysAndKinds(obj) ==
    [i \in DOMAIN obj.properties |-> <<obj.properties[i].key, obj.properties[i].kind>>]

\* a = {a: 1, b};
ExampleObject ==
    ObjectProgram(<<AstProperty(a, one, "init", FALSE, FALSE, FALSE),
                    AstProperty(b, b, "init", FALSE, TRUE, FALSE)>>)

Accepts(chk, type) == Range(AppendType(KeysList(chk[type])))

\* the two tables check the same statement types and accept the same field names on each
SameAllowLists(chk1, chk2) ==
    /\ DOMAIN chk1 = DOMAIN chk2
    /\ \A type \in DOMAIN chk1 :
          /\ chk1[type].kind = "none" <=> chk2[type].kind = "none"
          /\ chk1[type].kind # "none" => Accepts(chk1, type) = Accepts(chk2, type)

\* C12: whatever calls of load came before in the process, successful or failing, load
\* gives on a tree the outcome it gives as the first call of the process (the same
\* Program or the same error), and the allow-lists of Block.checks, extended in place
\* with 'type' by every checknode call, accept the same field names in every state
C12_LoadKeepsNoState ==
    /\ SameAllowLists(checks, BlockChecks)
    /\ Loaded => result = load(ast, BlockChecks).v

\* the second load of the process: both loads went through a VariableDeclaration, whose
\* allow-list holds 'type' twice by now, and through an if statement
C12_Witness ==
    /\ Loaded
    /\ nloads = 2
    /\ checks.VariableDeclaration.l = <<"declarations", "kind", "type", "type">>
    /\ checks.IfStatement.l = <<"test", "consequent", "alternate", "type", "type">>
    /\ checks # BlockChecks
    /\ ~IsErr(result)

\* the typed nodes a typed node holds
Parts(node) ==
    CASE node.cls = "Program" -> <<node.body>>
      [] node.cls = "Block" -> node.statements
      [] node.cls = "Operation" -> <<node.left, node.right>>
      [] node.cls = "Modifier" -> <<node.argument>>
      [] node.cls \in {"ConditionalExpression", "ConditionalStatement"} ->
            <<node.test, node.consequent, node.alternate>>
      [] node.cls = "Handler" -> <<node.block, node.catcher, node.finalizer>>
      [] node.cls = "Iterator" -> <<node.itervar, node.rangedecl, node.body>>
      [] node.cls = "Loop" -> node.init \o <<node.test, node.update, node.body>>
      [] node.cls = "Function" -> <<node.body>>
      [] node.cls = "Call" -> <<node.callee, node.args>>
      [] node.cls = "Property" -> <<node.value>>
      [] node.cls = "Object" -> node.properties
      [] node.cls = "Combinator" -> node.args
      [] node.cls \in {"Action", "VariableDeclaration"} -> <<node.expression>>
      [] node.cls = "list" -> node.items
      [] OTHER -> <<>>

RECURSIVE BlocksOf(_)
\* the Blocks of a typed tree
BlocksOf(node) ==
    (IF node.cls = "Block" THEN {node} ELSE {})
    \cup UNION {BlocksOf(Parts(node)[i]) : i \in DOMAIN Parts(node)}

\* what Block.pretty adds to buf for the statements before the i-th, and for the i-th
BufBefore(block, i) == BlockBuf([block EXCEPT !.statements = SubSeq(@, 1, i - 1)], JsparserRules)

BufOf(block, i) == BlockBuf([block EXCEPT !.statements = <<@[i]>>], JsparserRules)

\* the text ends where a line starts
AtLineStart(t) == t = <<>> \/ t[Len(t)] = NL

\* every statement of the block that renders to some text starts a line of the block's
\* buf: at the column the other statements of the block start at
StatementsAligned(block) ==
    \A i \in DOMAIN block.statements :
        BufOf(block, i) # <<>> => AtLineStart(BufBefore(block, i))

\* the block is rendered as an opening brace on a line, the lines of its statements with
\* one indentation unit before each, and the closing brace on a line of its own
Braced(block) ==
    LET buf == BlockBuf(block, JsparserRules)
        lines == Split(buf)
        t == pretty(block, JsparserRules)
        inner == SubSeq(t, 3, Len(t) - 2)
    IN  /\ Len(t) >= 4
        /\ SubSeq(t, 1, 2) = <<"{", NL>>
        /\ SubSeq(t, Len(t) - 1, Len(t)) = <<"}", NL>>
        /\ AtLineStart(inner)
        /\ Len(Split(inner)) = Len(lines)
        /\ \A k \in DOMAIN lines :
              (k < Len(lines) \/ lines[k] # <<>>)
                 => Split(inner)[k] = <<JsparserRules.indent>> \o lines[k]

\* f();  and  { { f(); } f(); }  in text
CallText == <<"f", "(", ")", ";", NL>>

SiblingAfterNested ==
    AstProgram(<<AstBlock(<<AstBlock(<<CallStmt>>), CallStmt>>)>>)

\* C13: in a loaded Program the root is the one Block with the top flag; it is rendered
\* without braces, its statements starting at column 0; every other Block is rendered as
\* "{", its statements, "}", each line of its statements one indentation unit further in
\* than the braces; and the statements of one block all start at the same indentation,
\* whatever was rendered before them
C13_IndentationFollowsNesting ==
    Rendered =>
        /\ result.body.top
        /\ \A block \in BlocksOf(result) :
              /\ block.top <=> block = result.body
              /\ StatementsAligned(block)
              /\ ~block.top => Braced(block)
        /\ text = BlockBuf(result.body, JsparserRules)
        /\ ast = SiblingAfterNested =>
              text = <<"{", NL, "    ", "{", NL, "    ", "    ">> \o CallText
                         \o <<"    ", "}", NL, "    ">> \o CallText \o <<"}", NL>>

====
